---------------------------- MODULE Spec2Model ----------------------------
(***************************************************************************)
(* Model of the trademark pipeline: DataTransformer (extractor) and        *)
(* DataCleaner (normalizer).  Python values are tagged records, strings    *)
(* are sequences of one-character strings, dict objects live in a heap so  *)
(* that copies and in-place writes can be told apart.                      *)
(***************************************************************************)
EXTENDS Integers, Sequences, FiniteSets, TLC

VARIABLES
    pc,           \* where the run is: which function is to be called next
    platform,     \* the C library and time zone the interpreter runs on
    raw,          \* the raw record handed to transform_trademark (None: none)
    heap,         \* the dict objects, by address
    rec,          \* address of the record handed to clean_trademark
    res,          \* address of the record clean_trademark returned
    res2,         \* address of the record clean_trademark returned for res
    probe,        \* the pattern and date date_value was rendered from (or None)
    date_value,   \* the value handed to _normalize_date
    date_result,  \* what _normalize_date returned
    row,          \* the spreadsheet row handed to _format_record (None: none)
    files,        \* the state of the two output files of main
    flattened_data, \* what flatten_record returned in save_csv
    log,          \* the messages main has logged, oldest first
    exit_code     \* the status main has exited with ("none": it has not)

vars == <<pc, platform, raw, heap, rec, res, res2, probe, date_value, date_result,
          row, files, flattened_data, log, exit_code>>

(***************************************************************************)
(* Bounds of the model.                                                    *)
(***************************************************************************)
MaxWords == 3
MaxPhoneLen == 3
NumYears == 1
MaxEntries == 2

(***************************************************************************)
(* Python values.                                                          *)
(***************************************************************************)
None == [t |-> "none", v |-> 0]
Str(s) == [t |-> "str", v |-> s]
Num(n) == [t |-> "num", v |-> n]
Float(k) == [t |-> "float", v |-> k]
Dict(f) == [t |-> "dict", v |-> f]
List(l) == [t |-> "list", v |-> l]
Ref(a) == [t |-> "ref", v |-> a]
DateTime(y, m, d) == [t |-> "datetime", v |-> <<y, m, d>>]
EmptyDict == [k \in {} |-> None]

\* bool(x) for a value that is not a reference
Truthy(x) ==
    CASE x.t = "none" -> FALSE
      [] x.t = "str" -> x.v # <<>>
      [] x.t = "num" -> x.v # 0
      [] x.t = "list" -> x.v # <<>>
      [] x.t = "dict" -> DOMAIN x.v # {}
      [] OTHER -> TRUE

\* bool(x) where x may be a reference to a dict of the heap
TruthyH(h, x) == IF x.t = "ref" THEN DOMAIN h[x.v] # {} ELSE Truthy(x)

\* d.get(k) on the contents of a dict
Get(f, k) == IF k \in DOMAIN f THEN f[k] ELSE None

\* a or b
Or(a, b) == IF Truthy(a) THEN a ELSE b

\* d[k] = x on the contents of a dict
Put(f, k, x) == [kk \in DOMAIN f \cup {k} |-> IF kk = k THEN x ELSE f[kk]]

\* {**f, **g}
Merge(f, g) == [k \in DOMAIN f \cup DOMAIN g |-> IF k \in DOMAIN g THEN g[k] ELSE f[k]]

(***************************************************************************)
(* Characters and the string methods the code uses.                        *)
(***************************************************************************)
Lowers == <<"a", "b", "c", "d", "e", "f", "g", "h", "i", "j", "k", "l", "m",
            "n", "o", "p", "q", "r", "s", "t", "u", "v", "w", "x", "y", "z">>
Uppers == <<"A", "B", "C", "D", "E", "F", "G", "H", "I", "J", "K", "L", "M",
            "N", "O", "P", "Q", "R", "S", "T", "U", "V", "W", "X", "Y", "Z">>
Digits == <<"0", "1", "2", "3", "4", "5", "6", "7", "8", "9">>

IsSpace(c) == c \in {" ", "\t", "\n"}
IsDigit(c) == \E i \in 1..10 : Digits[i] = c
DigitVal(c) == (CHOOSE i \in 1..10 : Digits[i] = c) - 1

LowerChar(c) == IF \E i \in 1..26 : Uppers[i] = c
                THEN Lowers[CHOOSE i \in 1..26 : Uppers[i] = c] ELSE c
UpperChar(c) == IF \E i \in 1..26 : Lowers[i] = c
                THEN Uppers[CHOOSE i \in 1..26 : Lowers[i] = c] ELSE c

Lower(s) == [i \in 1..Len(s) |-> LowerChar(s[i])]
Upper(s) == [i \in 1..Len(s) |-> UpperChar(s[i])]

\* s[i:] (1-based, inclusive)
From(s, i) == SubSeq(s, i, Len(s))

\* the words ws joined by sep
RECURSIVE Join(_, _)
Join(ws, sep) ==
    IF ws = <<>> THEN <<>>
    ELSE IF Len(ws) = 1 THEN ws[1]
    ELSE ws[1] \o sep \o Join(Tail(ws), sep)

\* str.strip()
Strip(s) ==
    LET keep == {i \in 1..Len(s) : ~IsSpace(s[i])}
    IN  IF keep = {} THEN <<>>
        ELSE SubSeq(s, CHOOSE i \in keep : \A j \in keep : i <= j,
                       CHOOSE i \in keep : \A j \in keep : i >= j)

\* re.sub(r'\s+', ' ', s): every maximal run of whitespace becomes one space
RECURSIVE CollapseSpaces(_)
CollapseSpaces(s) ==
    IF s = <<>> THEN <<>>
    ELSE IF IsSpace(s[1])
         THEN IF Len(s) > 1 /\ IsSpace(s[2])
              THEN CollapseSpaces(Tail(s))
              ELSE <<" ">> \o CollapseSpaces(Tail(s))
         ELSE <<s[1]>> \o CollapseSpaces(Tail(s))

\* _normalize_text of both classes (the two bodies are the same)
_normalize_text(text) ==
    IF ~Truthy(text) \/ text.t # "str" THEN text
    ELSE Str(CollapseSpaces(Strip(text.v)))

\* the alternatives of the legal-suffix pattern, lower-cased (re.IGNORECASE)
Designators ==
    { <<"i", "n", "c">>, <<"i", "n", "c", ".">>,
      <<"l", "l", "c">>,
      <<"l", ".", "l", ".", "c">>, <<"l", ".", "l", ".", "c", ".">>,
      <<"c", "o", "r", "p">>, <<"c", "o", "r", "p", ".">>,
      <<"c", "o", "r", "p", "o", "r", "a", "t", "i", "o", "n">>,
      <<"l", "t", "d">>, <<"l", "t", "d", ".">>,
      <<"l", "i", "m", "i", "t", "e", "d">> }

\* the positions at which '$' matches: the end, and before a final newline
DollarEnds(s) ==
    {Len(s)} \cup (IF s # <<>> /\ s[Len(s)] = "\n" THEN {Len(s) - 1} ELSE {})

\* a pattern that asks for no whitespace before the designator: '\s*' for '\s+'
SuffixMatchNoSpace(s, i, e) ==
    /\ e \in DollarEnds(s)
    /\ \E k \in 0..(e - i) :
          /\ \A j \in i..(i + k - 1) : IsSpace(s[j])
          /\ Lower(SubSeq(s, i + k, e)) \in Designators

\* r'\s+(Inc\.?|...|Limited)$' matches s[i..e]
SuffixMatch(s, i, e) ==
    /\ e \in DollarEnds(s)
    /\ \E k \in 1..(e - i) :
          /\ \A j \in i..(i + k - 1) : IsSpace(s[j])
          /\ Lower(SubSeq(s, i + k, e)) \in Designators

\* re.sub(r'\s+(Inc\.?|...|Limited)$', '', s, flags=re.IGNORECASE):
\* the leftmost match is removed; nothing after it can match again
StripLegalSuffix(s) ==
    LET starts == {i \in 1..Len(s) : \E e \in DollarEnds(s) : SuffixMatch(s, i, e)}
    IN  IF starts = {} THEN s
        ELSE LET i == CHOOSE x \in starts : \A y \in starts : x <= y
                 e == CHOOSE x \in DollarEnds(s) :
                        /\ SuffixMatch(s, i, x)
                        /\ \A y \in DollarEnds(s) : SuffixMatch(s, i, y) => x <= y
             IN  SubSeq(s, 1, i - 1) \o SubSeq(s, e + 1, Len(s))

\* re.sub(r'[^\d+]', '', s): every character other than a digit or '+' goes
StripPhone(s) == SelectSeq(s, LAMBDA c : IsDigit(c) \/ c = "+")


(***************************************************************************)
(* DataCleaner.  A call returns [exc, h, ret]: whether it raised, the heap *)
(* it leaves, and the value it returns.  A new dict gets the next address. *)
(***************************************************************************)
Raised(h) == [exc |-> TRUE, h |-> h, ret |-> None]
Returned(h, x) == [exc |-> FALSE, h |-> h, ret |-> x]

\* if k in d and d[k]: d[k] = _normalize_text(d[k])
NormalizeField(f, k) ==
    IF k \in DOMAIN f /\ Truthy(f[k]) THEN Put(f, k, _normalize_text(f[k])) ELSE f

\* if k in d and d[k]: d[k] = d[k].strip().upper()   (AttributeError unless a str)
UpperFieldRaises(f, k) == k \in DOMAIN f /\ Truthy(f[k]) /\ f[k].t # "str"
UpperField(f, k) ==
    IF k \in DOMAIN f /\ Truthy(f[k]) /\ f[k].t = "str"
    THEN Put(f, k, Str(Upper(Strip(f[k].v)))) ELSE f

\* the name lines of _clean_owner: _normalize_text, then re.sub (TypeError unless a str)
OwnerNameRaises(f) == "name" \in DOMAIN f /\ Truthy(f["name"]) /\ f["name"].t # "str"
OwnerName(f) ==
    IF "name" \in DOMAIN f /\ Truthy(f["name"]) /\ f["name"].t = "str"
    THEN Put(f, "name", Str(StripLegalSuffix(_normalize_text(f["name"]).v)))
    ELSE f

\* the body of _clean_owner after the copy, on the contents of the copy
CleanOwnerFields(f) ==
    UpperField(UpperField(UpperField(
        NormalizeField(NormalizeField(OwnerName(f), "address"), "city"),
        "state"), "country"), "postal_code")

CleanOwnerRaises(f) ==
    \/ OwnerNameRaises(f)
    \/ \E k \in {"state", "country", "postal_code"} : UpperFieldRaises(f, k)

\* _clean_owner without 'cleaned = owner.copy()': the fields are written to
\* the owner it was given
_clean_owner_in_place(h, owner) ==
    IF ~TruthyH(h, owner) THEN Returned(h, owner)
    ELSE IF owner.t = "ref"
         THEN IF CleanOwnerRaises(h[owner.v]) THEN Raised(h)
              ELSE Returned([h EXCEPT ![owner.v] = CleanOwnerFields(@)], owner)
         ELSE IF owner.t = "list" THEN Returned(h, owner)
              ELSE Raised(h)

\* DataCleaner._clean_owner(owner)
_clean_owner(h, owner) ==
    IF ~TruthyH(h, owner) THEN Returned(h, owner)
    ELSE IF owner.t = "ref"
         THEN LET f == h[owner.v]
                  a == Len(h) + 1
              IN  IF CleanOwnerRaises(f) THEN Raised(Append(h, f))
                  ELSE Returned(Append(h, CleanOwnerFields(f)), Ref(a))
         ELSE IF owner.t = "list" THEN Returned(h, owner)
              ELSE Raised(h)

\* the phone and email lines of _clean_representative
RepPhoneRaises(f) == "phone" \in DOMAIN f /\ Truthy(f["phone"]) /\ f["phone"].t # "str"
RepPhone(f) ==
    IF "phone" \in DOMAIN f /\ Truthy(f["phone"]) /\ f["phone"].t = "str"
    THEN Put(f, "phone", Str(StripPhone(f["phone"].v))) ELSE f

RepEmailRaises(f) == "email" \in DOMAIN f /\ Truthy(f["email"]) /\ f["email"].t # "str"
RepEmail(f) ==
    IF "email" \in DOMAIN f /\ Truthy(f["email"]) /\ f["email"].t = "str"
    THEN Put(f, "email", Str(Lower(Strip(f["email"].v)))) ELSE f

CleanRepFields(f) ==
    RepEmail(RepPhone(
        NormalizeField(NormalizeField(NormalizeField(f, "name"), "firm"), "address")))

\* DataCleaner._clean_representative(rep)
_clean_representative(h, rep) ==
    IF ~TruthyH(h, rep) THEN Returned(h, rep)
    ELSE IF rep.t = "ref"
         THEN LET f == h[rep.v]
                  a == Len(h) + 1
              IN  IF RepPhoneRaises(f) \/ RepEmailRaises(f) THEN Raised(Append(h, f))
                  ELSE Returned(Append(h, CleanRepFields(f)), Ref(a))
         ELSE IF rep.t = "list" THEN Returned(h, rep)
              ELSE Raised(h)

\* required_structure["owner"]
RequiredOwner ==
    [k \in {"name", "address", "city", "state", "country", "postal_code"} |-> None]

\* required_structure, its owner being the dict at address ownerAddr
RequiredStructure(ownerAddr) ==
    [k \in {"registration_number", "serial_number", "registration_date",
            "expiry_date", "status", "mark_text", "mark_drawing_code", "classes",
            "owner", "representative", "events", "filing_date", "published_date",
            "goods_services"} |->
        IF k \in {"classes", "events"} THEN List(<<>>)
        ELSE IF k = "owner" THEN Ref(ownerAddr)
        ELSE None]

\* if k not in cleaned or not isinstance(cleaned[k], list): cleaned[k] = []
EnsureList(f, k) ==
    IF k \notin DOMAIN f \/ f[k].t # "list" THEN Put(f, k, List(<<>>)) ELSE f

\* DataCleaner._ensure_required_fields(record), record the dict at address r
_ensure_required_fields(h, r) ==
    LET aReqOwner == Len(h) + 1
        aReq == Len(h) + 2
        aCleaned == Len(h) + 3
        aOwner == Len(h) + 4
        h1 == h \o <<RequiredOwner, RequiredStructure(aReqOwner)>>
        \* cleaned = required_structure.copy(); cleaned.update(record)
        h2 == Append(h1, Merge(h1[aReq], h1[r]))
        given == "owner" \in DOMAIN h2[r] /\ TruthyH(h2, h2[r]["owner"])
    IN  IF given /\ h2[r]["owner"].t # "ref" THEN Raised(h2)
        ELSE LET newOwner == IF given THEN Merge(h2[aReqOwner], h2[h2[r]["owner"].v])
                             ELSE h2[aReqOwner]
                 h3 == Append(h2, newOwner)
                 f == EnsureList(EnsureList(Put(h3[aCleaned], "owner", Ref(aOwner)),
                                            "classes"), "events")
             IN  Returned([h3 EXCEPT ![aCleaned] = f], Ref(aCleaned))

\* the loop over mark_text, status, goods_services of clean_trademark
CleanTextFields(f) ==
    NormalizeField(NormalizeField(NormalizeField(f, "mark_text"), "status"),
                   "goods_services")

\* clean_trademark after the two sub-mappings: the loop over the text
\* fields, then cleaned = _ensure_required_fields(cleaned)
CleanText(h, c) == _ensure_required_fields([h EXCEPT ![c] = CleanTextFields(@)], c)

\* cleaned["representative"] = p, the result of _clean_representative
WithRep(c, p) ==
    IF p.exc THEN Raised(p.h)
    ELSE CleanText([p.h EXCEPT ![c] = Put(@, "representative", p.ret)], c)

\* if "representative" in cleaned and cleaned["representative"]: ...
CleanRep(h, c) ==
    IF "representative" \in DOMAIN h[c] /\ TruthyH(h, h[c]["representative"])
    THEN WithRep(c, _clean_representative(h, h[c]["representative"]))
    ELSE CleanText(h, c)

\* cleaned["owner"] = o, the result of _clean_owner
WithOwner(c, o) ==
    IF o.exc THEN Raised(o.h)
    ELSE CleanRep([o.h EXCEPT ![c] = Put(@, "owner", o.ret)], c)

\* if "owner" in cleaned and cleaned["owner"]: ...
CleanOwner(h, c) ==
    IF "owner" \in DOMAIN h[c] /\ TruthyH(h, h[c]["owner"])
    THEN WithOwner(c, _clean_owner(h, h[c]["owner"]))
    ELSE CleanRep(h, c)

\* DataCleaner.clean_trademark(record), record the dict at address r:
\* cleaned = record.copy() is the new dict at the next address
clean_trademark(h, r) == CleanOwner(Append(h, h[r]), Len(h) + 1)

\* the value a heap holds at x, references followed
RECURSIVE Deref(_, _)
Deref(h, x) ==
    IF x.t = "ref" THEN Dict([k \in DOMAIN h[x.v] |-> Deref(h, h[x.v][k])]) ELSE x

(***************************************************************************)
(* Dates: datetime.strptime, strftime, float() and fromtimestamp as the    *)
(* interpreter's library does them.                                        *)
(***************************************************************************)
\* the value of a run of decimal digits
RECURSIVE DigitsVal(_)
DigitsVal(s) == IF s = <<>> THEN 0
                ELSE 10 * DigitsVal(SubSeq(s, 1, Len(s) - 1)) + DigitVal(s[Len(s)])

AllDigits(s) == \A i \in 1..Len(s) : IsDigit(s[i])

\* n in decimal, zero-padded to at least w digits
RECURSIVE Decimal(_, _)
Decimal(n, w) ==
    IF n < 10 /\ w <= 1 THEN <<Digits[n + 1]>>
    ELSE Decimal(n \div 10, w - 1) \o <<Digits[(n % 10) + 1]>>

MonthNames ==
    << <<"j", "a", "n", "u", "a", "r", "y">>, <<"f", "e", "b", "r", "u", "a", "r", "y">>,
       <<"m", "a", "r", "c", "h">>, <<"a", "p", "r", "i", "l">>, <<"m", "a", "y">>,
       <<"j", "u", "n", "e">>, <<"j", "u", "l", "y">>, <<"a", "u", "g", "u", "s", "t">>,
       <<"s", "e", "p", "t", "e", "m", "b", "e", "r">>, <<"o", "c", "t", "o", "b", "e", "r">>,
       <<"n", "o", "v", "e", "m", "b", "e", "r">>, <<"d", "e", "c", "e", "m", "b", "e", "r">> >>

MonthAbbrs == [m \in 1..12 |-> SubSeq(MonthNames[m], 1, 3)]

IsLeap(y) == (y % 4 = 0 /\ y % 100 # 0) \/ y % 400 = 0

DaysInMonth(y, m) ==
    IF m = 2 THEN (IF IsLeap(y) THEN 29 ELSE 28)
    ELSE IF m \in {4, 6, 9, 11} THEN 30 ELSE 31

\* whether the text t is one the directive's regular expression accepts
DirectiveAccepts(dir, t) ==
    CASE dir = "%Y" -> Len(t) = 4 /\ AllDigits(t)
      [] dir = "%m" -> \/ Len(t) = 2 /\ AllDigits(t) /\ DigitsVal(t) \in 1..12
                       \/ Len(t) = 1 /\ AllDigits(t) /\ DigitsVal(t) \in 1..9
      [] dir = "%d" -> \/ Len(t) = 2 /\ AllDigits(t) /\ DigitsVal(t) \in 1..31
                       \/ Len(t) = 1 /\ AllDigits(t) /\ DigitsVal(t) \in 1..9
                       \/ Len(t) = 2 /\ t[1] = " " /\ IsDigit(t[2]) /\ t[2] # "0"
      [] dir = "%H" -> Len(t) \in {1, 2} /\ AllDigits(t) /\ DigitsVal(t) \in 0..23
      [] dir = "%M" -> Len(t) \in {1, 2} /\ AllDigits(t) /\ DigitsVal(t) \in 0..59
      [] dir = "%S" -> Len(t) \in {1, 2} /\ AllDigits(t) /\ DigitsVal(t) \in 0..61
      [] dir = "%B" -> \E m \in 1..12 : Lower(t) = MonthNames[m]
      [] dir = "%b" -> \E m \in 1..12 : Lower(t) = MonthAbbrs[m]
      [] dir = " " -> Len(t) >= 1 /\ \A i \in 1..Len(t) : IsSpace(t[i])
      [] OTHER -> Len(t) = 1 /\ LowerChar(t[1]) = LowerChar(dir)

\* the number a directive's text stands for
DirectiveValue(dir, t) ==
    CASE dir = "%B" -> CHOOSE m \in 1..12 : Lower(t) = MonthNames[m]
      [] dir = "%b" -> CHOOSE m \in 1..12 : Lower(t) = MonthAbbrs[m]
      [] dir \in {"%Y", "%m", "%d", "%H", "%M", "%S"} ->
            DigitsVal(SelectSeq(t, IsDigit))
      [] OTHER -> 0

\* the length of the longest text a directive accepts (whitespace: any)
DirectiveWidth(dir) ==
    CASE dir = "%Y" -> 4
      [] dir \in {"%m", "%d", "%H", "%M", "%S"} -> 2
      [] dir = "%B" -> 9
      [] dir = "%b" -> 3
      [] OTHER -> 1

\* the longest text at s[p..] the directive accepts (0: none).  The pattern
\* strptime builds tries a directive's longer alternatives first, and in the
\* formats below an element is always followed by one that cannot start
\* where a shorter alternative would end, so the first choice is the only
\* one that can lead to a match.
LongestAccepted(dir, s, p) ==
    LET left == Len(s) - p + 1
        most == IF dir = " " \/ DirectiveWidth(dir) > left THEN left ELSE DirectiveWidth(dir)
        cand == {n \in 1..most : DirectiveAccepts(dir, SubSeq(s, p, p + n - 1))}
    IN  IF cand = {} THEN 0 ELSE CHOOSE x \in cand : \A y \in cand : x >= y

\* the match of fmt[k..] at s[p..], the directives read so far being acc:
\* [ok, end, f]
RECURSIVE MatchFrom(_, _, _, _, _)
MatchStep(fmt, k, s, p, acc, n) ==
    IF n = 0 THEN [ok |-> FALSE, end |-> 0, f |-> acc]
    ELSE MatchFrom(fmt, k + 1, s, p + n,
                   Put(acc, fmt[k], DirectiveValue(fmt[k], SubSeq(s, p, p + n - 1))))
MatchFrom(fmt, k, s, p, acc) ==
    IF k > Len(fmt) THEN [ok |-> TRUE, end |-> p - 1, f |-> acc]
    ELSE MatchStep(fmt, k, s, p, acc, LongestAccepted(fmt[k], s, p))

\* the datetime strptime builds from a match r of all of a string of length n:
\* [ok, y, m, d]; ok is FALSE for ValueError
DateOfMatch(r, n) ==
    LET g(dir, dflt) == IF dir \in DOMAIN r.f THEN r.f[dir] ELSE dflt
        y == g("%Y", 1900)
        m == IF "%B" \in DOMAIN r.f THEN r.f["%B"]
             ELSE IF "%b" \in DOMAIN r.f THEN r.f["%b"] ELSE g("%m", 1)
        d == g("%d", 1)
    IN  IF /\ r.ok
           /\ r.end = n
           /\ y >= 1
           /\ d <= DaysInMonth(y, m)
           /\ g("%S", 0) <= 59
        THEN [ok |-> TRUE, y |-> y, m |-> m, d |-> d]
        ELSE [ok |-> FALSE, y |-> 0, m |-> 0, d |-> 0]

\* datetime.strptime(s, fmt)
strptime(s, fmt) == DateOfMatch(MatchFrom(fmt, 1, s, 1, EmptyDict), Len(s))

\* dt.strftime("%Y-%d-%m"): day and month exchanged
strftime_day_first(y, m, d) ==
    Str(Decimal(y, IF platform.pad_year THEN 4 ELSE 1) \o <<"-">>
        \o Decimal(d, 2) \o <<"-">> \o Decimal(m, 2))

\* dt.strftime("%Y-%m-%d"); the C library decides whether %Y pads a year
\* below 1000 with zeros
strftime(y, m, d) ==
    Str(Decimal(y, IF platform.pad_year THEN 4 ELSE 1) \o <<"-">>
        \o Decimal(m, 2) \o <<"-">> \o Decimal(d, 2))

\* date_formats of _normalize_date, in its order
date_formats ==
    << <<"%Y", "-", "%m", "-", "%d">>,
       <<"%Y", "/", "%m", "/", "%d">>,
       <<"%m", "/", "%d", "/", "%Y">>,
       <<"%d", "/", "%m", "/", "%Y">>,
       <<"%d", ".", "%m", ".", "%Y">>,
       <<"%d", "-", "%m", "-", "%Y">>,
       <<"%Y", "-", "%m", "-", "%d", "T", "%H", ":", "%M", ":", "%S">>,
       <<"%Y", "-", "%m", "-", "%d", "T", "%H", ":", "%M", ":", "%S", "Z">>,
       <<"%Y", "-", "%m", "-", "%d", " ", "%H", ":", "%M", ":", "%S">>,
       <<"%B", " ", "%d", ",", " ", "%Y">>,
       <<"%b", " ", "%d", ",", " ", "%Y">>,
       <<"%d", " ", "%B", " ", "%Y">>,
       <<"%d", " ", "%b", " ", "%Y">> >>

\* (days, seconds) of a run of decimal digits read as seconds: long division
\* by 86400, the numbers staying small
RECURSIVE DivDay(_)
DivDay(s) ==
    IF s = <<>> THEN [q |-> 0, r |-> 0]
    ELSE LET b == DivDay(SubSeq(s, 1, Len(s) - 1))
             x == b.r * 10 + DigitVal(s[Len(s)])
         IN  [q |-> b.q * 10 + x \div 86400, r |-> x % 86400]

RECURSIVE DropZeros(_)
DropZeros(s) == IF s # <<>> /\ s[1] = "0" THEN DropZeros(Tail(s)) ELSE s

Zeros(n) == [i \in 1..n |-> "0"]

\* the float of a well-formed numeral: integer digits ip, fraction digits
\* fp, exponent x (eneg: negative; big: beyond 999), sign neg
FloatOfDigits(neg, whole, part, zero, big, eneg, d) ==
    IF zero \/ (big /\ eneg) THEN [k |-> "fin", days |-> 0, secs |-> 0]
    ELSE IF big \/ Len(whole) > 309 THEN [k |-> "inf"]
    ELSE IF Len(whole) > 12 THEN [k |-> "huge"]
    ELSE IF ~neg THEN [k |-> "fin", days |-> d.q, secs |-> d.r]
    ELSE IF d.r = 0 /\ DropZeros(part) = <<>> THEN [k |-> "fin", days |-> -d.q, secs |-> 0]
    ELSE [k |-> "fin", days |-> -d.q - 1, secs |-> (86400 - d.r) % 86400]

FloatOfWhole(neg, whole, part, zero, big, eneg) ==
    FloatOfDigits(neg, whole, part, zero, big, eneg,
                  IF Len(whole) > 12 THEN [q |-> 0, r |-> 0] ELSE DivDay(whole))

FloatOfCut(neg, all, cut, big, eneg) ==
    FloatOfWhole(neg,
        DropZeros(IF cut <= 0 THEN <<>>
                  ELSE IF cut <= Len(all) THEN SubSeq(all, 1, cut)
                  ELSE all \o Zeros(cut - Len(all))),
        IF cut <= 0 THEN all
        ELSE IF cut <= Len(all) THEN SubSeq(all, cut + 1, Len(all)) ELSE <<>>,
        DropZeros(all) = <<>>, big, eneg)

FloatOfParts(neg, ip, fp, hasExp, expo) ==
    LET eneg == expo # <<>> /\ expo[1] = "-"
        edig == IF expo # <<>> /\ expo[1] \in {"+", "-"} THEN Tail(expo) ELSE expo
        big == Len(DropZeros(edig)) > 3
        x == IF ~hasExp \/ big THEN 0 ELSE DigitsVal(edig)
    IN  IF ~(/\ AllDigits(ip) /\ AllDigits(fp) /\ Len(ip) + Len(fp) >= 1
             /\ hasExp => (edig # <<>> /\ AllDigits(edig)))
        THEN [k |-> "err"]
        ELSE FloatOfCut(neg, ip \o fp,
                        IF big THEN 0 ELSE IF eneg THEN Len(ip) - x ELSE Len(ip) + x,
                        big, eneg)

FloatOfMantissa(neg, mant, hasExp, expo) ==
    LET dots == {i \in 1..Len(mant) : mant[i] = "."}
        dot == IF dots = {} THEN Len(mant) + 1 ELSE CHOOSE i \in dots : TRUE
    IN  IF Cardinality(dots) > 1 THEN [k |-> "err"]
        ELSE FloatOfParts(neg, SubSeq(mant, 1, dot - 1), SubSeq(mant, dot + 1, Len(mant)),
                          hasExp, expo)

FloatOfBody(neg, body) ==
    LET es == {i \in 1..Len(body) : body[i] = "e"}
        e == IF es = {} THEN Len(body) + 1 ELSE CHOOSE i \in es : TRUE
    IN  IF body \in {<<"i", "n", "f">>, <<"i", "n", "f", "i", "n", "i", "t", "y">>}
        THEN [k |-> "inf"]
        ELSE IF body = <<"n", "a", "n">> THEN [k |-> "nan"]
        ELSE IF Cardinality(es) > 1 THEN [k |-> "err"]
        ELSE FloatOfMantissa(neg, SubSeq(body, 1, e - 1), es # {}, SubSeq(body, e + 1, Len(body)))

FloatOfText(t) ==
    FloatOfBody(t # <<>> /\ t[1] = "-",
                IF t # <<>> /\ t[1] \in {"+", "-"} THEN Tail(t) ELSE t)

\* float(s) read as a number of seconds: [k |-> "err"] for ValueError, "nan",
\* "inf", "huge" for a finite number of more than 12 integer digits, else
\* [k |-> "fin", days, secs] (floor).  Digit-group underscores are not read.
PyFloat(s) == FloatOfText(Lower(Strip(s)))

\* the civil date of a day number (days since 1970-01-01)
CivilFromDays(z0) ==
    LET z == z0 + 719468
        era == z \div 146097
        doe == z - era * 146097
        yoe == (doe - doe \div 1460 + doe \div 36524 - doe \div 146096) \div 365
        doy == doe - (365 * yoe + yoe \div 4 - yoe \div 100)
        mp == (5 * doy + 2) \div 153
        d == doy - (153 * mp + 2) \div 5 + 1
        m == IF mp < 10 THEN mp + 3 ELSE mp - 9
    IN  [y |-> yoe + era * 400 + (IF m <= 2 THEN 1 ELSE 0), m |-> m, d |-> d]

\* datetime.fromtimestamp of days*86400 + secs seconds, in local time:
\* [err, y, m, d]; err is "" or the exception raised: ValueError when the
\* local date, or the day before (which the fold detection reads), is outside
\* the years 1..9999
fromtimestamp(days, secs) ==
    LET day == days + (secs + platform.tz) \div 86400
        c == CivilFromDays(day)
    IN  IF days - 1 < -719162 \/ day < -719162 \/ day > 2932896
        THEN [err |-> "ValueError", y |-> 0, m |-> 0, d |-> 0]
        ELSE [err |-> "", y |-> c.y, m |-> c.m, d |-> c.d]

\* fromtimestamp of a float() result or a float value
FromFloat(f) ==
    CASE f.k = "nan" -> [err |-> "ValueError", y |-> 0, m |-> 0, d |-> 0]
      [] f.k = "inf" -> [err |-> "OverflowError", y |-> 0, m |-> 0, d |-> 0]
      [] f.k = "huge" -> [err |-> platform.range_err, y |-> 0, m |-> 0, d |-> 0]
      [] f.k = "err" -> [err |-> "ValueError", y |-> 0, m |-> 0, d |-> 0]
      [] OTHER -> fromtimestamp(f.days, f.secs)

\* the exceptions each branch of _normalize_date catches
CaughtStr == {"ValueError", "TypeError"}
CaughtNum == {"ValueError", "OSError"}

\* a call of _normalize_date returns [exc, ret]
Ret(x) == [exc |-> FALSE, ret |-> x]
Exc == [exc |-> TRUE, ret |-> None]

AfterTimestamp(r, caught) ==
    IF r.err = "" THEN Ret(strftime(r.y, r.m, r.d))
    ELSE IF r.err \in caught THEN Ret(None)
    ELSE Exc

\* the loop over date_formats of _normalize_date, from format i on, and the
\* timestamp attempt after it
RECURSIVE TryFormats(_, _)
TryFormat(s, i, dt) ==
    IF dt.ok THEN Ret(strftime(dt.y, dt.m, dt.d)) ELSE TryFormats(s, i + 1)
TryFormats(s, i) ==
    IF i > Len(date_formats) THEN AfterTimestamp(FromFloat(PyFloat(s)), CaughtStr)
    ELSE TryFormat(s, i, strptime(s, date_formats[i]))

\* DataTransformer._normalize_date(date_value)
_normalize_date(v) ==
    CASE v.t = "none" -> Ret(None)
      [] v.t = "str" -> TryFormats(v.v, 1)
      [] v.t = "num" ->
            AfterTimestamp(fromtimestamp(v.v \div 86400, v.v % 86400), CaughtNum)
      [] v.t = "float" -> AfterTimestamp(FromFloat([k |-> v.v]), CaughtNum)
      [] v.t = "datetime" -> Ret(strftime(v.v[1], v.v[2], v.v[3]))
      [] OTHER -> Ret(None)

(***************************************************************************)
(* DataTransformer.  Raw records are values; dict keys are atoms.  None of *)
(* the candidate-key lists the class passes holds a dotted key, so the     *)
(* dotted branch of _extract_field is never taken and keys are not split.  *)
(***************************************************************************)
\* _extract_field that takes the first candidate key with a non-null value,
\* an empty string included
ExtractFirstNonNull(f, keys, k, default) ==
    LET held == {j \in k..Len(keys) : keys[j] \in DOMAIN f /\ f[keys[j]] # None}
    IN  IF held = {} THEN default
        ELSE f[keys[CHOOSE j \in held : \A i \in held : j <= i]]

\* DataTransformer._extract_field(record, possible_keys, default), from key k on
RECURSIVE ExtractFrom(_, _, _, _)
ExtractFrom(f, keys, k, default) ==
    IF k > Len(keys) THEN default
    ELSE IF keys[k] \in DOMAIN f /\ f[keys[k]] # None /\ f[keys[k]] # Str(<<>>)
         THEN f[keys[k]]
         ELSE ExtractFrom(f, keys, k + 1, default)

_extract_field(f, possible_keys, default) == ExtractFrom(f, possible_keys, 1, default)

\* DataTransformer._extract_field_multisource(sources, possible_keys, default),
\* from source i on
RECURSIVE MultisourceFrom(_, _, _, _)
MultisourceFrom(sources, keys, i, default) ==
    IF i > Len(sources) THEN default
    ELSE IF sources[i].t # "dict" THEN MultisourceFrom(sources, keys, i + 1, default)
    ELSE LET value == _extract_field(sources[i].v, keys, None)
         IN  IF value # None /\ value # Str(<<>>) THEN value
             ELSE MultisourceFrom(sources, keys, i + 1, default)

_extract_field_multisource(sources, possible_keys, default) ==
    MultisourceFrom(sources, possible_keys, 1, default)

\* raw_data = record.get("raw_data", {}) or {}
RawDataOf(f) == Or(Get(f, "raw_data"), Dict(EmptyDict))

\* raw_data.get(...) raises AttributeError unless raw_data is a dict
SourcesRaise(f) == RawDataOf(f).t # "dict"

\* all_sources = [record, raw_data, excel_data]
all_sources(f) ==
    LET raw_data == RawDataOf(f)
        excel_data == Or(Get(raw_data.v, "_raw_excel_data"), Dict(EmptyDict))
    IN  <<Dict(f), raw_data, excel_data>>

\* the loops of _extract_classes and _extract_owner that look for the field:
\* in each dict source the first field present is read, and the search stops
\* at the first source whose value is truthy; from source i on, found so far
RECURSIVE FindData(_, _, _, _)
FindData(sources, fields, i, found) ==
    IF i > Len(sources) THEN found
    ELSE IF sources[i].t # "dict" THEN FindData(sources, fields, i + 1, found)
    ELSE LET present == {k \in 1..Len(fields) : fields[k] \in DOMAIN sources[i].v}
             data == IF present = {} THEN found
                     ELSE sources[i].v[fields[CHOOSE k \in present : \A j \in present : k <= j]]
         IN  IF Truthy(data) THEN data ELSE FindData(sources, fields, i + 1, data)

\* str(x)
RECURSIVE PyStr(_)
\* repr of a string: the newline, the tab and the backslash are escaped; the
\* quotes are double ones when the string holds a single quote and no double
\* one, and a single quote is escaped when it holds both
RECURSIVE Escaped(_, _)
Escaped(s, quote) ==
    IF s = <<>> THEN <<>>
    ELSE (CASE s[1] = "\n" -> <<"\\", "n">>
            [] s[1] = "\t" -> <<"\\", "t">>
            [] s[1] = "\\" -> <<"\\", "\\">>
            [] s[1] = quote -> <<"\\", quote>>
            [] OTHER -> <<s[1]>>) \o Escaped(Tail(s), quote)
PyRepr(x) ==
    IF x.t # "str" THEN PyStr(x)
    ELSE LET has(c) == \E i \in 1..Len(x.v) : x.v[i] = c
             quote == IF has("'") /\ ~has("\"") THEN "\"" ELSE "'"
         IN  <<quote>> \o Escaped(x.v, quote) \o <<quote>>
RECURSIVE JoinRepr(_)
JoinRepr(l) ==
    IF l = <<>> THEN <<>>
    ELSE IF Len(l) = 1 THEN PyRepr(l[1])
    ELSE PyRepr(l[1]) \o <<",", " ">> \o JoinRepr(Tail(l))
PyStr(x) ==
    CASE x.t = "str" -> x.v
      [] x.t = "num" -> IF x.v < 0 THEN <<"-">> \o Decimal(-x.v, 1) ELSE Decimal(x.v, 1)
      [] x.t = "none" -> <<"N", "o", "n", "e">>
      [] x.t = "float" -> IF x.v = "huge" THEN <<"1", "e", "+", "2", "0">>
                          ELSE [i \in 1..3 |-> IF x.v = "inf" THEN <<"i", "n", "f">>[i]
                                               ELSE <<"n", "a", "n">>[i]]
      [] x.t = "list" -> <<"[">> \o JoinRepr(x.v) \o <<"]">>
      [] OTHER -> <<"{", "}">>

\* the length of the longest run of whitespace (of digits) that starts at s[p]
RECURSIVE SpaceRun(_, _)
SpaceRun(s, p) == IF p <= Len(s) /\ IsSpace(s[p]) THEN 1 + SpaceRun(s, p + 1) ELSE 0
RECURSIVE DigitRun(_, _)
DigitRun(s, p) == IF p <= Len(s) /\ IsDigit(s[p]) THEN 1 + DigitRun(s, p + 1) ELSE 0

\* re.findall(r'[Cc]lass\s+(\d+)', s): the digit groups, left to right; w and
\* d are the whitespace and the digits that follow a 'class' at s[1..5]
RECURSIVE FindClasses(_)
ClassMatch(s, w, d) ==
    IF w >= 1 /\ d >= 1
    THEN <<SubSeq(s, 6 + w, 5 + w + d)>> \o FindClasses(From(s, 6 + w + d))
    ELSE FindClasses(Tail(s))
ClassSpaces(s, w) == ClassMatch(s, w, DigitRun(s, 6 + w))
FindClasses(s) ==
    IF Len(s) < 7 THEN <<>>
    ELSE IF s[1] \in {"C", "c"} /\ SubSeq(s, 2, 5) = <<"l", "a", "s", "s">>
         THEN ClassSpaces(s, SpaceRun(s, 6))
         ELSE FindClasses(Tail(s))

\* s.split(c)
RECURSIVE Split(_, _)
Split(s, c) ==
    LET at == {i \in 1..Len(s) : s[i] = c}
    IN  IF at = {} THEN <<s>>
        ELSE LET i == CHOOSE x \in at : \A y \in at : x <= y
             IN  <<SubSeq(s, 1, i - 1)>> \o Split(From(s, i + 1), c)

ClassEntry(number, description) ==
    Dict([k \in {"class_number", "description"} |->
            IF k = "class_number" THEN number ELSE description])

\* the entries the list branch of _extract_classes appends
RECURSIVE ClassesOfList(_)
ClassesOfList(l) ==
    IF l = <<>> THEN <<>>
    ELSE LET cls == l[1]
             entry ==
                IF cls.t = "dict"
                THEN <<ClassEntry(Or(Or(Get(cls.v, "classNumber"), Get(cls.v, "class_number")),
                                     Get(cls.v, "code")),
                                  Or(Get(cls.v, "description"), Get(cls.v, "classDescription")))>>
                ELSE IF cls.t \in {"num", "str"}
                THEN <<ClassEntry(Str(PyStr(cls)), None)>>
                ELSE <<>>
         IN  entry \o ClassesOfList(Tail(l))

\* the entries the string branch of _extract_classes appends
EntriesOfCodes(codes) == [i \in 1..Len(codes) |-> ClassEntry(Str(codes[i]), None)]
StripEach(parts) == [i \in 1..Len(parts) |-> Strip(parts[i])]
ClassesOfString(s) ==
    EntriesOfCodes(SelectSeq(StripEach(Split(s, ";")), LAMBDA c : c # <<>>))

class_fields ==
    <<"classes", "internationalClasses", "classCodes", "goodsServicesClasses",
      "trademarkClasses", "i_p_c", "I P C", "ipc">>

\* the fallback of _extract_classes: the classes named in the goods/services text
ClassesOfText(goods_services) ==
    IF Truthy(goods_services) THEN EntriesOfCodes(FindClasses(PyStr(goods_services)))
    ELSE <<>>

\* the entries _extract_classes appends for ipc_data
ClassesOfData(ipc_data) ==
    IF ~Truthy(ipc_data) THEN <<>>
    ELSE IF ipc_data.t = "list" THEN ClassesOfList(ipc_data.v)
    ELSE IF ipc_data.t = "dict"
         THEN <<ClassEntry(Or(Get(ipc_data.v, "classNumber"), Get(ipc_data.v, "class_number")),
                           Get(ipc_data.v, "description"))>>
    ELSE IF ipc_data.t = "str" THEN ClassesOfString(ipc_data.v)
    ELSE <<>>

ClassesOrFallback(f, classes) ==
    IF classes # <<>> THEN List(classes)
    ELSE List(ClassesOfText(_extract_field_multisource(all_sources(f),
                <<"goodsServices", "goods_services", "description">>, None)))

\* DataTransformer._extract_classes(record), on the contents of record
_extract_classes(f) ==
    ClassesOrFallback(f, ClassesOfData(FindData(all_sources(f), class_fields, 1, None)))

owner_fields == <<"owner", "applicant", "assignee", "ownerName", "applicantName">>

\* the owner as _extract_owner fills it from owner_data
OwnerFromData(owner_data) ==
    IF Truthy(owner_data) /\ owner_data.t = "dict"
    THEN LET d == owner_data.v
             addr == {k \in {"address", "street", "streetAddress"} : k \in DOMAIN d}
         IN  [name |-> Or(Or(Get(d, "name"), Get(d, "ownerName")), Get(d, "applicantName")),
              address |-> IF "address" \in addr THEN d["address"]
                          ELSE IF "street" \in addr THEN d["street"]
                          ELSE IF "streetAddress" \in addr THEN d["streetAddress"]
                          ELSE None,
              city |-> Get(d, "city"),
              state |-> Or(Get(d, "state"), Get(d, "stateProvince")),
              country |-> Or(Get(d, "country"), Get(d, "countryCode")),
              postal_code |-> Or(Or(Get(d, "postalCode"), Get(d, "postal_code")), Get(d, "zip"))]
    ELSE [name |-> IF Truthy(owner_data) /\ owner_data.t = "str" THEN owner_data ELSE None,
          address |-> None, city |-> None, state |-> None, country |-> None,
          postal_code |-> None]

\* _extract_owner without the lines that take the document-level country
_extract_owner_no_fallback(f) ==
    LET owner == OwnerFromData(FindData(all_sources(f), owner_fields, 1, None))
        name == IF Truthy(owner.name) THEN _normalize_text(owner.name) ELSE owner.name
    IN  Dict([owner EXCEPT !.name = name])

\* DataTransformer._extract_owner(record), on the contents of record
_extract_owner(f) ==
    LET owner == OwnerFromData(FindData(all_sources(f), owner_fields, 1, None))
        country == IF ~Truthy(owner.country)
                   THEN _extract_field_multisource(all_sources(f), <<"country", "Country">>, None)
                   ELSE owner.country
        name == IF Truthy(owner.name) THEN _normalize_text(owner.name) ELSE owner.name
    IN  Dict([owner EXCEPT !.country = country, !.name = name])

rep_fields == <<"representative", "attorney", "correspondent", "lawyer", "representativeName">>

\* the value of the first representative field the record has
RepData(f) ==
    LET present == {k \in 1..Len(rep_fields) : rep_fields[k] \in DOMAIN f}
    IN  IF present = {} THEN None
        ELSE f[rep_fields[CHOOSE k \in present : \A j \in present : k <= j]]

\* rep as _extract_representative fills it from rep_data
RepEntity(rep_data) ==
    IF Truthy(rep_data) /\ rep_data.t = "dict"
    THEN LET d == rep_data.v
         IN  [name |-> Or(Get(d, "name"), Get(d, "attorneyName")),
              firm |-> Or(Get(d, "firm"), Get(d, "lawFirm")),
              address |-> Get(d, "address"),
              phone |-> Or(Get(d, "phone"), Get(d, "telephone")),
              email |-> Get(d, "email")]
    ELSE [name |-> None, firm |-> None, address |-> None, phone |-> None, email |-> None]

\* _extract_representative with 'return rep': the entity is returned whatever
\* it holds
_extract_representative_always(f) == Dict(RepEntity(RepData(f)))

\* DataTransformer._extract_representative(record), on the contents of record
_extract_representative(f) ==
    LET rep == RepEntity(RepData(f))
    IN  IF \E k \in DOMAIN rep : Truthy(rep[k]) THEN Dict(rep) ELSE None

event_fields == <<"events", "history", "prosecutionHistory", "statusHistory", "eventHistory">>

EventDateOf(e) == _normalize_date(Or(Get(e.v, "date"), Get(e.v, "eventDate")))

\* the entries _extract_events appends for the list l
RECURSIVE EventsOfList(_)
EventsOfList(l) ==
    IF l = <<>> THEN <<>>
    ELSE LET e == l[1]
             entry ==
                IF e.t = "dict"
                THEN <<Dict([date |-> EventDateOf(e).ret,
                             type |-> Or(Or(Get(e.v, "type"), Get(e.v, "eventType")), Get(e.v, "code")),
                             description |-> Or(Get(e.v, "description"), Get(e.v, "eventDescription")),
                             code |-> Or(Get(e.v, "code"), Get(e.v, "eventCode"))])>>
                ELSE <<>>
         IN  entry \o EventsOfList(Tail(l))

\* the list _extract_events reads: that of the first event field present
EventData(f) ==
    LET present == {k \in 1..Len(event_fields) : event_fields[k] \in DOMAIN f}
    IN  IF present = {} THEN None
        ELSE f[event_fields[CHOOSE k \in present : \A j \in present : k <= j]]

EventsRaise(f) ==
    /\ EventData(f).t = "list"
    /\ \E i \in 1..Len(EventData(f).v) :
          EventData(f).v[i].t = "dict" /\ EventDateOf(EventData(f).v[i]).exc

\* DataTransformer._extract_events(record), on the contents of record
_extract_events(f) ==
    IF EventData(f).t = "list" THEN List(EventsOfList(EventData(f).v)) ELSE List(<<>>)

\* the candidate keys transform_trademark passes for each scalar field
CandidateKeys ==
    [registration_number |-> <<"registrationNumber", "regNumber", "registration_number",
                               "regNum", "application_number", "Application Number">>,
     serial_number |-> <<"serialNumber", "serial_number", "serialNum", "applicationNumber",
                         "application_id", "Application Id">>,
     registration_date |-> <<"registrationDate", "registration_date", "regDate",
                             "registeredDate">>,
     expiry_date |-> <<"expiryDate", "expiry_date", "expirationDate", "expDate">>,
     status |-> <<"status", "markStatus", "currentStatus", "statusCode">>,
     mark_text |-> <<"markText", "mark_text", "wordMark", "markDescription", "title", "Title">>,
     mark_drawing_code |-> <<"markDrawingCode", "mark_drawing_code", "drawingCode">>,
     filing_date |-> <<"filingDate", "filing_date", "applicationDate", "appDate",
                       "application_date", "Application Date">>,
     published_date |-> <<"publishedDate", "publicationDate", "pubDate">>,
     goods_services |-> <<"goodsServices", "goods_services", "description",
                          "goodsAndServices">>]

DateFields == {"registration_date", "expiry_date", "filing_date", "published_date"}

\* the value transform_trademark looks up for a scalar field
Extracted(f, field) == _extract_field_multisource(all_sources(f), CandidateKeys[field], None)

\* the value transform_trademark puts under key k of its result
TransformedField(f, k) ==
    CASE k \in DateFields -> _normalize_date(Extracted(f, k)).ret
      [] k = "classes" -> _extract_classes(f)
      [] k = "owner" -> _extract_owner(f)
      [] k = "representative" -> _extract_representative(f)
      [] k = "events" -> _extract_events(f)
      [] k = "raw_data" -> Dict(f)
      [] OTHER -> Extracted(f, k)

\* the dict literal without its last entry, "raw_data": record
TransformedWithoutRawData(f) ==
    [k \in DOMAIN CandidateKeys \cup {"classes", "owner", "representative", "events"} |->
        TransformedField(f, k)]

\* the dict literal transform_trademark builds
Transformed(f) ==
    [k \in DOMAIN CandidateKeys \cup
           {"classes", "owner", "representative", "events", "raw_data"} |->
        TransformedField(f, k)]

\* DataTransformer.transform_trademark(record), on the contents of record:
\* [exc, ret]
transform_trademark(f) ==
    IF \/ SourcesRaise(f)
       \/ \E d \in DateFields : _normalize_date(Extracted(f, d)).exc
       \/ EventsRaise(f)
    THEN Exc
    ELSE Ret(Dict(Transformed(f)))

(***************************************************************************)
(* DataCleaner.flatten_record and the two writers of main.                 *)
(***************************************************************************)
\* flattened[prefix_k] = sub.get(k) for the sub-mapping under key, popped;
\* the sub-mapping is a dict of the heap or a dict held in the record
FlattenSub(h, f, key, names) ==
    IF key \in DOMAIN f /\ f[key].t \in {"dict", "ref"}
    THEN LET sub == IF f[key].t = "ref" THEN h[f[key].v] ELSE f[key].v
         IN  [k \in (DOMAIN f \ {key}) \cup DOMAIN names |->
                 IF k \in DOMAIN names THEN Get(sub, names[k]) ELSE f[k]]
    ELSE f

owner_columns ==
    [k \in {"owner_name", "owner_address", "owner_city", "owner_state",
            "owner_country", "owner_postal_code"} |->
        CASE k = "owner_name" -> "name"
          [] k = "owner_address" -> "address"
          [] k = "owner_city" -> "city"
          [] k = "owner_state" -> "state"
          [] k = "owner_country" -> "country"
          [] OTHER -> "postal_code"]

rep_columns ==
    [k \in {"rep_name", "rep_firm", "rep_address", "rep_phone", "rep_email"} |->
        CASE k = "rep_name" -> "name"
          [] k = "rep_firm" -> "firm"
          [] k = "rep_address" -> "address"
          [] k = "rep_phone" -> "phone"
          [] OTHER -> "email"]

\* the printable characters strings are made of, in code order
CharsInOrder ==
    <<" ", "!", "\"", "#", "$", "%", "&", "'", "(", ")", "*", "+", ",", "-", ".", "/",
      "0", "1", "2", "3", "4", "5", "6", "7", "8", "9", ":", ";", "<", "=", ">", "?",
      "@", "A", "B", "C", "D", "E", "F", "G", "H", "I", "J", "K", "L", "M", "N", "O",
      "P", "Q", "R", "S", "T", "U", "V", "W", "X", "Y", "Z", "[", "\\", "]", "^", "_",
      "a", "b", "c", "d", "e", "f", "g", "h", "i", "j", "k", "l", "m", "n", "o",
      "p", "q", "r", "s", "t", "u", "v", "w", "x", "y", "z", "{", "|", "}", "~">>

\* a < b for strings, by the rank of the first characters that differ; the
\* tab and the newline come before every printable character
RECURSIVE StrLess(_, _)
StrLess(a, b) ==
    LET ord(c) == IF \E i \in 1..Len(CharsInOrder) : CharsInOrder[i] = c
                  THEN CHOOSE i \in 1..Len(CharsInOrder) : CharsInOrder[i] = c
                  ELSE 0
    IN  IF b = <<>> THEN FALSE
        ELSE IF a = <<>> THEN TRUE
        ELSE IF a[1] = b[1] THEN StrLess(Tail(a), Tail(b))
        ELSE ord(a[1]) < ord(b[1])

\* str and int keys are compared among themselves, anything else raises
KeysRaise(l) ==
    Len(l) > 1 /\ ~ \E t \in {"str", "num"} : \A i \in 1..Len(l) : l[i].v["date"].t = t

\* max(l, key=lambda x: x.get("date", ""), default=None): the first of the
\* entries with the greatest key
RECURSIVE MaxByDate(_, _)
MaxByDate(l, best) ==
    LET less(a, b) == IF a.t = "str" THEN StrLess(a.v, b.v) ELSE a.v < b.v
    IN  IF l = <<>> THEN best
        ELSE IF best.t = "none" \/ less(best.v["date"], l[1].v["date"])
             THEN MaxByDate(Tail(l), l[1])
             ELSE MaxByDate(Tail(l), best)

\* the list of class numbers with no entry left out
ClassNumbersUnfiltered(classes) ==
    [i \in 1..Len(classes) |-> PyStr(Get(classes[i].v, "class_number"))]

\* [str(c.get("class_number", "")) for c in classes if c.get("class_number")]
ClassNumbers(classes) ==
    LET numbered == SelectSeq(classes, LAMBDA c : Truthy(Get(c.v, "class_number")))
    IN  [i \in 1..Len(numbered) |-> PyStr(numbered[i].v["class_number"])]

\* the two class columns of flatten_record
FlattenClasses(f) ==
    IF "classes" \in DOMAIN f /\ f["classes"].t = "list"
    THEN LET class_numbers == ClassNumbers(f["classes"].v)
         IN  [k \in (DOMAIN f \ {"classes"}) \cup {"class_numbers", "class_count"} |->
                 CASE k = "class_numbers" ->
                          IF class_numbers # <<>> THEN Str(Join(class_numbers, <<",", " ">>))
                          ELSE None
                   [] k = "class_count" -> Num(Len(f["classes"].v))
                   [] OTHER -> f[k]]
    ELSE [k \in DOMAIN f \cup {"class_numbers", "class_count"} |->
             CASE k = "class_numbers" -> None
               [] k = "class_count" -> Num(0)
               [] OTHER -> f[k]]

\* the three event columns of flatten_record
FlattenEvents(f) ==
    LET columns == {"event_count", "latest_event_date", "latest_event_type"}
    IN  IF "events" \in DOMAIN f /\ f["events"].t = "list"
        THEN LET events == f["events"].v
                 latest_event ==
                    MaxByDate(SelectSeq(events, LAMBDA e : Truthy(Get(e.v, "date"))), None)
             IN  [k \in (DOMAIN f \ {"events"}) \cup columns |->
                     CASE k = "event_count" -> Num(Len(events))
                       [] k = "latest_event_date" ->
                              IF latest_event.t = "none" THEN None
                              ELSE Get(latest_event.v, "date")
                       [] k = "latest_event_type" ->
                              IF latest_event.t = "none" THEN None
                              ELSE Get(latest_event.v, "type")
                       [] OTHER -> f[k]]
        ELSE [k \in DOMAIN f \cup columns |->
                 IF k = "event_count" THEN Num(0)
                 ELSE IF k \in columns THEN None
                 ELSE f[k]]

\* whether flatten_record raises: an element of classes or events that has
\* no get, or event dates that max cannot compare
FlattenRaises(f) ==
    \/ /\ "classes" \in DOMAIN f /\ f["classes"].t = "list"
       /\ \E i \in 1..Len(f["classes"].v) : f["classes"].v[i].t # "dict"
    \/ /\ "events" \in DOMAIN f /\ f["events"].t = "list"
       /\ \/ \E i \in 1..Len(f["events"].v) : f["events"].v[i].t # "dict"
          \/ KeysRaise(SelectSeq(f["events"].v, LAMBDA e : Truthy(Get(e.v, "date"))))

\* DataCleaner.flatten_record(record), record the dict at address r; at the
\* end raw_data is deleted
flatten_record(h, r) ==
    LET f == FlattenEvents(FlattenClasses(
                 FlattenSub(h, FlattenSub(h, h[r], "owner", owner_columns),
                            "representative", rep_columns)))
    IN  IF FlattenRaises(h[r]) THEN Exc
        ELSE Ret(Dict([k \in DOMAIN f \ {"raw_data"} |-> f[k]]))

\* save_csv that lets the exceptions of flattening and writing leave it
save_csv_uncaught(h, r, outcome) ==
    LET flattened == flatten_record(h, r)
        failed == flattened.exc \/ outcome # "complete"
    IN  [exc |-> failed,
         ret |-> IF failed THEN None ELSE Str(<<"c", "s", "v">>),
         file |-> IF flattened.exc THEN "absent" ELSE outcome,
         flattened |-> flattened,
         logged |-> "Saved CSV"]

\* save_csv(data, filename, output_dir) of main, data being the one record at
\* address r (so data is not empty): the record is flattened and the frame
\* written to the file, which ends as outcome says (the file system may fail
\* before the file is opened or while it is written).  An exception of
\* either step is caught, logged, and None returned.
save_csv(h, r, outcome) ==
    LET flattened == flatten_record(h, r)
        failed == flattened.exc \/ outcome # "complete"
    IN  [exc |-> FALSE,
         ret |-> IF failed THEN None ELSE Str(<<"c", "s", "v">>),
         file |-> IF flattened.exc THEN "absent" ELSE outcome,
         flattened |-> flattened,
         logged |-> IF failed THEN "Error saving CSV" ELSE "Saved CSV"]

\* whether json.dump can write x: the encoder has no form for a datetime
RECURSIVE JsonSerializable(_, _)
JsonSerializable(h, x) ==
    CASE x.t = "datetime" -> FALSE
      [] x.t = "ref" -> \A k \in DOMAIN h[x.v] : JsonSerializable(h, h[x.v][k])
      [] x.t = "dict" -> \A k \in DOMAIN x.v : JsonSerializable(h, x.v[k])
      [] x.t = "list" -> \A i \in 1..Len(x.v) : JsonSerializable(h, x.v[i])
      [] OTHER -> TRUE

(***************************************************************************)
(* StaticDataLoader._format_record.  Dict keys are atoms, so the column    *)
(* headers the model draws are listed with their spelling, and with the    *)
(* keys their normalized spellings name.                                   *)
(***************************************************************************)
HeaderSpelling ==
    << <<"registrationNumber", <<"r", "e", "g", "i", "s", "t", "r", "a", "t", "i", "o", "n", "N", "u", "m", "b", "e", "r">>>>,
       <<"registrationnumber", <<"r", "e", "g", "i", "s", "t", "r", "a", "t", "i", "o", "n", "n", "u", "m", "b", "e", "r">>>>,
       <<"Application Number", <<"A", "p", "p", "l", "i", "c", "a", "t", "i", "o", "n", " ", "N", "u", "m", "b", "e", "r">>>>,
       <<"application_number", <<"a", "p", "p", "l", "i", "c", "a", "t", "i", "o", "n", "_", "n", "u", "m", "b", "e", "r">>>>,
       <<"Serial-Number", <<"S", "e", "r", "i", "a", "l", "-", "N", "u", "m", "b", "e", "r">>>>,
       <<"serial_number", <<"s", "e", "r", "i", "a", "l", "_", "n", "u", "m", "b", "e", "r">>>>,
       <<"Filing Date", <<"F", "i", "l", "i", "n", "g", " ", "D", "a", "t", "e">>>>,
       <<"filing_date", <<"f", "i", "l", "i", "n", "g", "_", "d", "a", "t", "e">>>> >>

\* str(key).strip().lower().replace(' ', '_').replace('-', '_'): from the
\* characters of the header to the key that the result spells
normalized_key(key) ==
    LET chars == HeaderSpelling[CHOOSE i \in 1..Len(HeaderSpelling) :
                                    HeaderSpelling[i][1] = key][2]
        replace(s, a, b) == [i \in 1..Len(s) |-> IF s[i] = a THEN b ELSE s[i]]
        spelled == replace(replace(Lower(Strip(chars)), " ", "_"), "-", "_")
    IN  HeaderSpelling[CHOOSE i \in 1..Len(HeaderSpelling) :
                           HeaderSpelling[i][2] = spelled][1]

\* pd.isna(value), for the value of a cell
IsNa(value) == value.t = "none" \/ (value.t = "float" /\ value.v = "nan")

\* the loop of _format_record over the first n items of record, in the
\* order the columns are listed in
RECURSIVE FormatItems(_, _, _)
FormatItems(record, keys, formatted) ==
    IF keys = <<>> THEN formatted
    ELSE LET key == keys[1]
         IN  FormatItems(record, Tail(keys),
                 IF IsNa(record[key]) THEN Put(formatted, key, None)
                 ELSE Put(formatted, normalized_key(key), record[key]))

\* StaticDataLoader._format_record(record), on the contents of record, its
\* keys taken in column order
_format_record(record) ==
    LET columns == SelectSeq([i \in 1..Len(HeaderSpelling) |-> HeaderSpelling[i][1]],
                             LAMBDA k : k \in DOMAIN record)
    IN  Put(FormatItems(record, columns, EmptyDict), "_raw_excel_data", Dict(record))

(***************************************************************************)
(* The pipeline of main for one record: transform_batch and clean_batch    *)
(* map the two functions over the records, one record at a time.           *)
(***************************************************************************)
\* the objects of a record value: its owner and representative mappings are
\* dicts of their own, at addresses 1 and 2; the record is at address 3
RecordHeap(c) ==
    LET obj(k) == IF k \in DOMAIN c.v /\ c.v[k].t = "dict" THEN c.v[k].v ELSE EmptyDict
    IN  << obj("owner"), obj("representative"),
           [k \in DOMAIN c.v |->
               IF k = "owner" /\ c.v[k].t = "dict" THEN Ref(1)
               ELSE IF k = "representative" /\ c.v[k].t = "dict" THEN Ref(2)
               ELSE c.v[k]] >>

(***************************************************************************)
(* The platforms the interpreter may run on: whether the C library's       *)
(* strftime pads a year below 1000, which exception fromtimestamp raises   *)
(* for a timestamp the C library cannot convert, and the local time zone   *)
(* (seconds east of UTC).                                                  *)
(***************************************************************************)
Platforms ==
    [pad_year : BOOLEAN,
     range_err : {"ValueError", "OverflowError", "OSError"},
     tz : {0, 19800}]

\* the platforms a run is drawn on: a run that hands the library no
\* timestamp and no year below 1000 reads nothing of the platform and is
\* drawn on one
PlatformsFor(dated) ==
    IF dated THEN Platforms
    ELSE {[pad_year |-> FALSE, range_err |-> "OSError", tz |-> 0]}

(***************************************************************************)
(* The inputs.  A key that a mapping may or may not have is drawn as       *)
(* Absent and then left out.                                               *)
(***************************************************************************)
Absent == [t |-> "absent", v |-> 0]
Restrict(f) == [k \in {x \in DOMAIN f : f[x].t # "absent"} |-> f[k]]

\* what a source may hold under two candidate keys of serial_number; the
\* values name the source and the key they come from
SourceContents(i) ==
    { Restrict([serial_number |-> a, applicationNumber |-> b]) :
        a \in {Absent, None, Str(<<>>), Str(<<"s", Digits[i + 1]>>)},
        b \in {Absent, Str(<<"a", Digits[i + 1]>>)} }

\* the raw record whose three sources hold f1, f2 and f3
WithSources(f1, f2, f3) ==
    IF DOMAIN f2 = {} /\ DOMAIN f3 = {} THEN f1
    ELSE Put(f1, "raw_data",
             Dict(IF DOMAIN f3 = {} THEN f2 ELSE Put(f2, "_raw_excel_data", Dict(f3))))

PrecedenceRecords ==
    { WithSources(f1, f2, f3) :
        f1 \in SourceContents(1), f2 \in SourceContents(2), f3 \in SourceContents(3) }

\* what a representative mapping may hold
RepContents ==
    { Restrict([name |-> n, attorneyName |-> an, firm |-> fi, address |-> ad,
                phone |-> ph, email |-> em]) :
        n \in {Absent, Str(<<>>), Str(<<"A", "l", " ", " ", "B">>)},
        an \in {Absent, Str(<<>>)},
        fi \in {Absent, Str(<<"F">>)},
        ad \in {Absent, None, Str(<<>>)},
        ph \in {Absent, Str(<<"+", "1", " ", "(", "5", ")">>), Num(5), Num(0)},
        em \in {Absent, Str(<<" ", "A", "@", "b", " ">>)} }

RepresentativeRecords ==
    { [representative |-> Dict(c)] : c \in RepContents }
    \cup { [attorney |-> x] : x \in {None, Str(<<"B", "o", "b">>),
                                      Dict([telephone |-> Str(<<"5", "5", "5">>)])} }
    \cup { [lawyer |-> Dict([phone |-> Str(<<"5">>)]),
            representative |-> Dict(EmptyDict)] }

\* raw records whose values have other types than the usual ones, records
\* with dates, events and classes, and an owner given as a string
OddRecords ==
    { [raw_data |-> Str(<<"x">>)],
      [raw_data |-> List(<<Num(1)>>)],
      [raw_data |-> None],
      [raw_data |-> Dict(EmptyDict), status |-> Num(5)],
      [owner |-> Dict([postalCode |-> Num(12345)])],
      [owner |-> Dict([name |-> Num(5)])],
      [owner |-> Num(5)],
      [owner |-> Dict([address |-> Num(5), zip |-> Str(<<"a", "b", " ">>)])],
      [ownerName |-> Str(<<" ", "A", "b", " ", " ", "I", "n", "c", " ">>),
       country |-> Str(<<"u", "s">>)],
      [classes |-> Num(5)],
      [classes |-> Str(<<"9", ";", " ", "4", "2">>), events |-> Str(<<"x">>)],
      [goodsServices |-> Str(<<"C", "l", "a", "s", "s", " ", "9">>)],
      [events |-> List(<<Dict([date |-> Str(<<"i", "n", "f">>)])>>)],
      [events |-> List(<<Dict([eventDate |-> Str(<<"1", "5", ".", "0", "3", ".", "2", "0", "2", "1">>),
                               code |-> Str(<<"R">>)]), Str(<<"x">>)>>)],
      [filingDate |-> Str(<<"i", "n", "f">>)],
      [filingDate |-> Str(<<"0", "1", "/", "0", "2", "/", "2", "0", "2", "0">>),
       expiry_date |-> Num(86400),
       regDate |-> Str(<<"n", "o", "n", "e">>),
       pubDate |-> Str(<<"0", "9", "9", "9", "-", "0", "3", "-", "1", "5">>)],
      [filingDate |-> Str(<<>>),
       raw_data |-> Dict([_raw_excel_data |->
           Dict([k \in {"Application Date"} |->
                    Str(<<"M", "a", "r", " ", "5", ",", " ", "2", "0", "2", "1">>)])])] }

\* what a list of classes may hold: well-formed entries under the three
\* spellings of the number, entries without a number or without any expected
\* key, bare codes, and elements of other types
ClassElements ==
    { Dict([classNumber |-> Str(<<"9">>)]),
      Dict([code |-> Num(42), classDescription |-> Str(<<"d">>)]),
      Dict([description |-> Str(<<"x">>)]),
      Dict([code |-> Str(<<>>)]),
      Dict(EmptyDict),
      Str(<<"7">>), Num(5), None }

\* what a list of events may hold
EventElements ==
    { Dict([date |-> Str(<<"2", "0", "2", "1", "-", "0", "3", "-", "1", "5">>), type |-> Str(<<"T">>)]),
      Dict([eventDate |-> Str(<<"2", "0", "2", "0", "-", "0", "1", "-", "0", "2">>), code |-> Str(<<"R">>)]),
      Dict([note |-> Str(<<"n">>)]),
      Dict(EmptyDict),
      Str(<<"x">>), None }

\* the lists of up to MaxEntries elements
ListsOf(elements) == UNION {[1..n -> elements] : n \in 0..MaxEntries}

\* raw records with a list of classes or of events
ClassRecords == { [classes |-> List(l)] : l \in ListsOf(ClassElements) }
EventRecords == { [events |-> List(l)] : l \in ListsOf(EventElements) }

\* goods/services texts that name classes, and texts that do not
GoodsTexts ==
    { Str(<<"C", "l", "a", "s", "s", " ", "9">>), Str(<<"c", "l", "a", "s", "s", " ", "9">>), Str(<<"C", "L", "A", "S", "S", " ", "9">>), Str(<<"C", "l", "a", "s", "s", " ", "9", ",", " ", "c", "l", "a", "s", "s", "\t", "4", "2", " ", "x">>),
      Str(<<"s", "u", "b", "c", "l", "a", "s", "s", " ", "9">>), Str(<<"C", "l", "a", "s", "s", "9">>), Str(<<"c", "l", "a", "s", "s", " ", "n", "i", "n", "e">>) }

\* raw records without a class field, or with an empty one beside the text
\* or beside a second class field
FallbackRecords ==
    { [goodsServices |-> t] : t \in GoodsTexts }
    \cup { [classes |-> x, description |-> Str(<<"C", "l", "a", "s", "s", " ", "3">>)] :
             x \in {None, List(<<>>), List(<<None>>)} }
    \cup { Restrict([classes |-> x, ipc |-> Str(<<"9", ";", " ", "4", "2">>)]) :
             x \in {Absent, None, Str(<<>>), List(<<>>), Str(<<"7">>)} }

\* raw records with an owner given as a string or as a mapping, an empty
\* owner beside an applicant, and document-level country fields
OwnerRecords ==
    { Restrict([k \in {"owner", "applicant", "country", "Country"} |->
                  CASE k = "owner" -> o
                    [] k = "applicant" -> a
                    [] k = "country" -> c
                    [] OTHER -> cc]) :
        o \in {Absent, None, Str(<<>>), Dict(EmptyDict), Str(<<" ", "A", "b", " ", " ", "C", "o", " ">>),
               Dict([name |-> Str(<<"A", "b">>)]),
               Dict([name |-> Str(<<"A", "b">>), countryCode |-> Str(<<"f", "r">>)])},
        a \in {Absent, Str(<<"C", "d">>)},
        c \in {Absent, None, Str(<<"u", "s">>)},
        cc \in {Absent, Str(<<"D", "E">>)} }
    \cup { [owner |-> o, raw_data |-> Dict([applicant |-> Str(<<"C", "d">>), country |-> Str(<<"j", "p">>)])] :
             o \in {None, Str(<<"E", "f">>)} }

\* the words owner names are made of: a plain word, two designators, and a
\* word that ends in the letters of a designator
Words ==
    { <<"A", "b">>, <<"I", "n", "c">>, <<"c", "o", "r", "p", ".">>, <<"X", "L", "t", "d">> }

\* owner names of up to MaxWords words, tidy (single spaces) or untidy
\* (runs of whitespace between the words and around the name)
OwnerNames ==
    { Join(ws, <<" ">>) : ws \in UNION {[1..k -> Words] : k \in 1..MaxWords} }
    \cup { <<" ">> \o Join(ws, <<"\t", " ">>) \o <<"\n">> :
             ws \in UNION {[1..k -> Words] : k \in 1..MaxWords} }

\* phone values of up to MaxPhoneLen characters
Phones == UNION {[1..k -> {"+", "1", "-", " "}] : k \in 1..MaxPhoneLen}

\* a canonical-shaped record with the given owner name and representative
Canonical(name, rep) ==
    [k \in DOMAIN RequiredStructure(1) |->
        CASE k \in {"classes", "events"} -> List(<<>>)
          [] k = "owner" ->
                Dict([name |-> name,
                      address |-> Str(<<" ", "1", " ", " ", "M", "a", "i", "n">>),
                      city |-> None,
                      state |-> Str(<<" ", "n", "y">>),
                      country |-> Str(<<"u", "s">>),
                      postal_code |-> None])
          [] k = "representative" -> rep
          [] k = "mark_text" -> Str(<<" ", "M", " ", " ", "k">>)
          [] OTHER -> None]

\* a representative with the given phone
WithPhone(phone) ==
    Dict([name |-> Str(<<"A", "l">>), firm |-> None, address |-> None,
          phone |-> phone, email |-> Str(<<" ", "A", "@", "b">>)])

\* the records handed to clean_trademark directly: canonical-shaped ones,
\* and some that lack keys or hold a non-list under classes
CanonicalRecords ==
    { Canonical(Str(n), None) : n \in OwnerNames }
    \cup { Canonical(Str(<<"A", "b", " ", "L", "L", "C">>), WithPhone(Str(p))) : p \in Phones }
    \cup { Canonical(None, None), Canonical(Str(<<" ">>), WithPhone(None)),
           [owner |-> Dict([name |-> Str(<<"A", "b", " ", "I", "n", "c", ".">>)])],
           [owner |-> Dict([name |-> Str(<<"\t", "A", "b", " ", "\n", " ", "L", "t", "d", " ">>), address |-> Str(<<" ", "1", "\t", "\t", "M", "a", "i", "n", " ", " ", "S", "t", " ">>), city |-> Str(<<" ", "N", "e", "w", " ", "\n", " ", "Y", "o", "r", "k">>),
                            state |-> Str(<<" ", "n", "y", "\t">>), country |-> Str(<<"u", "s", " ">>), postal_code |-> Str(<<" ", "a", "b", "1", " ", "2", "c", "d", " ">>)])],
           [owner |-> Dict([city |-> Str(<<" ", " ">>), state |-> Str(<<"n", "e", "w", " ", " ", "y", "o", "r", "k">>)])],
           [classes |-> None, status |-> Str(<<" ", "o", "k">>)],
           EmptyDict }

\* the calendar dates rendered in the patterns: of NumYears years from 2020
\* on, every month, the days 1, 13 and the last
ProbeYears == {2019 + i : i \in 1..NumYears}
ProbeDates ==
    { ymd \in ProbeYears \X (1..12) \X (1..31) :
        ymd[3] \in {1, 13, DaysInMonth(ymd[1], ymd[2])} }

\* a month name as strftime writes it
Capitalized(w) == <<UpperChar(w[1])>> \o Tail(w)

\* the text of one element of a pattern for the date y-m-d at 10:00:00
RenderToken(tok, y, m, d) ==
    CASE tok = "%Y" -> Decimal(y, 4)
      [] tok = "%m" -> Decimal(m, 2)
      [] tok = "%d" -> Decimal(d, 2)
      [] tok = "%H" -> <<"1", "0">>
      [] tok \in {"%M", "%S"} -> <<"0", "0">>
      [] tok = "%B" -> Capitalized(MonthNames[m])
      [] tok = "%b" -> Capitalized(MonthAbbrs[m])
      [] OTHER -> <<tok>>

\* the string that renders the date y-m-d in the pattern fmt
RECURSIVE Render(_, _, _, _)
Render(fmt, y, m, d) ==
    IF fmt = <<>> THEN <<>>
    ELSE RenderToken(fmt[1], y, m, d) \o Render(Tail(fmt), y, m, d)

\* the date y-m-d in YYYY-MM-DD form
Iso(y, m, d) == Str(Decimal(y, 4) \o <<"-">> \o Decimal(m, 2) \o <<"-">> \o Decimal(d, 2))

\* other values handed to _normalize_date
DateValues ==
    { None, Num(0), Num(86399), Num(-86400), Float("inf"), Float("nan"), Float("huge"),
      DateTime(2021, 3, 15), DateTime(999, 3, 15), List(<<>>), Dict(EmptyDict),
      Str(<<>>), Str(<<"i", "n", "f">>), Str(<<"-", "I", "n", "f", "i", "n", "i", "t", "y">>),
      Str(<<"n", "a", "n">>), Str(<<"1", "e", "2", "0">>), Str(<<"1", "e", "1", "2">>),
      Str(<<"1", "e", "4", "0", "0">>), Str(<<"1", "e", "-", "5">>),
      Str(<<" ", "8", "6", "4", "0", "0", ".", "5", " ">>),
      Str(<<"-", "6", "2", "1", "3", "5", "5", "9", "6", "8", "0", "0">>),
      Str(<<"2", "5", "3", "4", "0", "2", "3", "0", "0", "7", "9", "9">>),
      Str(<<"t", "o", "d", "a", "y">>),
      Str(<<"2", "0", "2", "1", "-", "0", "2", "-", "3", "0">>),
      Str(<<"2", "0", "2", "1", "-", "3", "-", "5">>),
      Str(<<"0", "0", "0", "1", "-", "0", "1", "-", "0", "1">>),
      Str(<<" ", "2", "0", "2", "1", "-", "0", "3", "-", "1", "5">>),
      Str(<<"2", "0", "2", "1", "-", "0", "3", "-", "1", "5", "t", "1", "0", ":", "0", "0", ":", "6", "0">>),
      Str(<<"m", "a", "r", "c", "h", " ", " ", "5", ",", " ", "2", "0", "2", "1">>) }

NoProbe == [t |-> "none", v |-> <<>>]

\* the rows of a spreadsheet: a camelCase header, a header with a space, one
\* with a hyphen, an empty cell, and a date cell read as a datetime
Rows ==
    { Restrict([k \in {"registrationNumber", "Application Number", "Serial-Number",
                       "Filing Date"} |->
                  CASE k = "registrationNumber" -> a
                    [] k = "Application Number" -> b
                    [] k = "Serial-Number" -> c
                    [] OTHER -> d]) :
        a \in {Absent, Str(<<"r", "1">>)},
        b \in {Absent, None, Float("nan"), Str(<<"a", "1">>)},
        c \in {Absent, Str(<<"s", "1">>)},
        d \in {Absent, DateTime(2021, 3, 15)} } \ {EmptyDict}

(***************************************************************************)
(* The state machine.  A run is one of: main on a spreadsheet row, from    *)
(* _format_record to the two output files; main from a raw record on (the *)
(* record going through transform_trademark and clean_trademark, then to   *)
(* the output files); a record handed to clean_trademark directly; a value *)
(* handed to _normalize_date.  clean_trademark is also applied once more,  *)
(* to its own result.                                                      *)
(***************************************************************************)
InitRow ==
    /\ pc = "row"
    /\ platform \in PlatformsFor(FALSE)
    /\ row \in {Dict(f) : f \in Rows}
    /\ raw = None /\ heap = <<>> /\ rec = 0
    /\ probe = NoProbe /\ date_value = None

InitRaw ==
    /\ pc = "raw"
    /\ \/ raw \in {Dict(f) : f \in PrecedenceRecords \cup RepresentativeRecords
                                   \cup ClassRecords \cup EventRecords
                                   \cup FallbackRecords \cup OwnerRecords}
          /\ platform \in PlatformsFor(FALSE)
       \/ raw \in {Dict(f) : f \in OddRecords} /\ platform \in PlatformsFor(TRUE)
    /\ heap = <<>> /\ rec = 0
    /\ probe = NoProbe /\ date_value = None
    /\ row = None

InitCanonical ==
    /\ pc = "record"
    /\ platform \in PlatformsFor(FALSE)
    /\ raw = None
    /\ \E f \in CanonicalRecords : heap = RecordHeap(Dict(f))
    /\ rec = 3
    /\ probe = NoProbe /\ date_value = None
    /\ row = None

InitDate ==
    /\ pc = "date"
    /\ raw = None /\ heap = <<>> /\ rec = 0
    /\ row = None
    /\ \/ probe = NoProbe /\ date_value \in DateValues /\ platform \in PlatformsFor(TRUE)
       \/ \E i \in 1..Len(date_formats), ymd \in ProbeDates :
             /\ platform \in PlatformsFor(FALSE)
             /\ probe = [t |-> "probe", v |-> <<i, ymd[1], ymd[2], ymd[3]>>]
             /\ date_value = Str(Render(date_formats[i], ymd[1], ymd[2], ymd[3]))

Init ==
    /\ res = 0 /\ res2 = 0
    /\ date_result = Ret(None)
    /\ files = [json |-> "absent", csv |-> "absent"] /\ flattened_data = Ret(None)
    /\ log = <<>> /\ exit_code = "none"
    /\ (InitRow \/ InitRaw \/ InitCanonical \/ InitDate)

\* whether the run is one of main
InMain == raw # None

\* raw = StaticDataLoader._format_record(row)
Load ==
    /\ pc = "row"
    /\ raw' = Dict(_format_record(row.v))
    /\ pc' = "raw"
    /\ UNCHANGED <<platform, heap, rec, res, res2, probe, date_value, date_result,
                   row, files, flattened_data, log, exit_code>>

\* transformed = DataTransformer.transform_trademark(raw)
Transform ==
    /\ pc = "raw"
    /\ LET r == transform_trademark(raw.v)
       IN  IF r.exc
           THEN /\ pc' = "transform_raised" /\ UNCHANGED <<heap, rec>>
                /\ log' = Append(log, "Error transforming data") /\ exit_code' = "1"
           ELSE /\ pc' = "record" /\ heap' = RecordHeap(r.ret) /\ rec' = 3
                /\ UNCHANGED <<log, exit_code>>
    /\ UNCHANGED <<platform, raw, res, res2, probe, date_value, date_result,
                   row, files, flattened_data>>

\* cleaned = DataCleaner.clean_trademark(record)
Clean ==
    /\ pc = "record"
    /\ LET r == clean_trademark(heap, rec)
       IN  /\ heap' = r.h
           /\ IF r.exc
              THEN pc' = "clean_raised" /\ UNCHANGED res
              ELSE pc' = "cleaned" /\ res' = r.ret.v
           /\ IF r.exc /\ InMain
              THEN log' = Append(log, "Error cleaning data") /\ exit_code' = "1"
              ELSE UNCHANGED <<log, exit_code>>
    /\ UNCHANGED <<platform, raw, rec, res2, probe, date_value, date_result,
                   row, files, flattened_data>>

\* DataCleaner.clean_trademark(cleaned)
CleanAgain ==
    /\ pc = "cleaned"
    /\ LET r == clean_trademark(heap, res)
       IN  /\ heap' = r.h
           /\ IF r.exc
              THEN pc' = "clean_raised" /\ UNCHANGED res2
              ELSE pc' = "cleaned_again" /\ res2' = r.ret.v
    /\ UNCHANGED <<platform, raw, rec, res, probe, date_value, date_result,
                   row, files, flattened_data, log, exit_code>>

\* json_path = save_json(cleaned_trademarks, ...) in main: the file is opened
\* for writing and json.dump writes the records to it piece by piece.  The
\* file system may fail at any point, and json.dump raises TypeError at a
\* value it cannot encode; either way main logs the error and exits with 1.
SaveJson ==
    /\ pc = "cleaned" /\ InMain
    /\ \E outcome \in {"absent", "partial", "complete"} :
          /\ outcome = "complete" => JsonSerializable(heap, Ref(res))
          /\ files' = [files EXCEPT !.json = outcome]
          /\ IF outcome = "complete"
             THEN /\ pc' = "json_saved"
                  /\ log' = Append(log, "Saved JSON")
                  /\ UNCHANGED exit_code
             ELSE /\ pc' = "exited"
                  /\ log' = Append(log, "Error saving outputs")
                  /\ exit_code' = "1"
    /\ UNCHANGED <<platform, raw, heap, rec, res, res2, probe, date_value, date_result,
                   row, flattened_data>>

\* csv_path = save_csv(cleaned_trademarks, ...) and the rest of the try block
\* of main: the summary is logged and main returns; an exception that leaves
\* save_csv is logged by main, which exits with 1
SaveCsv ==
    /\ pc = "json_saved"
    /\ \E outcome \in {"absent", "partial", "complete"} :
          LET r == save_csv(heap, res, outcome)
          IN  /\ files' = [files EXCEPT !.csv = r.file]
              /\ flattened_data' = r.flattened
              /\ IF r.exc
                 THEN /\ pc' = "exited"
                      /\ log' = Append(log, "Error saving outputs")
                      /\ exit_code' = "1"
                 ELSE /\ pc' = "done"
                      /\ log' = log \o <<r.logged, "Pipeline completed successfully">>
                      /\ exit_code' = "0"
    /\ UNCHANGED <<platform, raw, heap, rec, res, res2, probe, date_value, date_result,
                   row>>

\* DataTransformer._normalize_date(date_value)
NormalizeDate ==
    /\ pc = "date"
    /\ date_result' = _normalize_date(date_value)
    /\ pc' = IF date_result'.exc THEN "date_raised" ELSE "date_done"
    /\ UNCHANGED <<platform, raw, heap, rec, res, res2, probe, date_value,
                   row, files, flattened_data, log, exit_code>>

Next ==
    \/ Load \/ Transform \/ Clean \/ CleanAgain \/ SaveJson \/ SaveCsv
    \/ NormalizeDate

Spec == Init /\ [][Next]_vars

(***************************************************************************)
(* Properties.                                                             *)
(***************************************************************************)
\* the record a run's raw record was transformed to, or the record handed to
\* clean_trademark; the record clean_trademark returned
Given == heap[rec]
Cleaned == heap[res]

\* C1 (idempotence): when clean_trademark has been applied to its own
\* result, the second result equals the first, sub-mappings included.
C1_Idempotent ==
    pc = "cleaned_again" => Deref(heap, Ref(res2)) = Deref(heap, Ref(res))

\* C2 (totality): for a raw record that is a mapping, neither
\* transform_trademark nor clean_trademark raises.
C2_Total ==
    raw.t = "dict" => pc \notin {"transform_raised", "clean_raised"}

\* the keys of the canonical record, and of its owner
CanonicalKeys ==
    {"registration_number", "serial_number", "registration_date", "expiry_date",
     "filing_date", "published_date", "status", "mark_text", "mark_drawing_code",
     "classes", "owner", "representative", "events", "goods_services", "raw_data"}
OwnerKeys == {"name", "address", "city", "state", "country", "postal_code"}

\* C3 (completeness): the result of transform_trademark followed by
\* clean_trademark has every canonical key, classes and events are
\* sequences, and owner is a mapping with all six owner keys.
C3_Complete ==
    (raw.t = "dict" /\ pc \in {"cleaned", "cleaned_again"}) =>
        /\ CanonicalKeys \subseteq DOMAIN Cleaned
        /\ Cleaned["classes"].t = "list"
        /\ Cleaned["events"].t = "list"
        /\ Cleaned["owner"].t = "ref"
        /\ OwnerKeys \subseteq DOMAIN heap[Cleaned["owner"].v]

\* a raw record without any of the keys, owner included, has gone through
\* both functions and has the canonical keys
C3_Witness ==
    /\ pc = "cleaned" /\ raw.t = "dict" /\ DOMAIN raw.v = {}
    /\ DOMAIN Cleaned = CanonicalKeys
    /\ DOMAIN heap[Cleaned["owner"].v] = OwnerKeys

\* the sources of a raw record, in precedence order: the record, its
\* raw_data, and the _raw_excel_data of that (None where there is none)
SourcesOf(r) ==
    LET second == IF "raw_data" \in DOMAIN r.v THEN r.v["raw_data"] ELSE None
        third == IF second.t = "dict" /\ "_raw_excel_data" \in DOMAIN second.v
                 THEN second.v["_raw_excel_data"] ELSE None
    IN  <<r, second, third>>

\* the source holds a non-null, non-empty-string value under the key
Usable(src, key) ==
    /\ src.t = "dict"
    /\ key \in DOMAIN src.v
    /\ src.v[key] # None
    /\ src.v[key] # Str(<<>>)

\* the value of the first usable candidate key of the earliest source that
\* has a usable candidate key; null when no source has one
FirstUsable(r, keys) ==
    LET srcs == SourcesOf(r)
        good == {i \in 1..3 : \E j \in 1..Len(keys) : Usable(srcs[i], keys[j])}
    IN  IF good = {} THEN None
        ELSE LET i == CHOOSE x \in good : \A y \in good : x <= y
                 js == {j \in 1..Len(keys) : Usable(srcs[i], keys[j])}
             IN  srcs[i].v[keys[CHOOSE x \in js : \A y \in js : x <= y]]

\* C4 (multi-source precedence): every scalar field of the transformed
\* record is the value of the first usable candidate key of the earliest
\* source that has one (for a date field, that value normalized), and null
\* when no source has a usable candidate.
C4_Precedence ==
    (raw.t = "dict" /\ pc = "record") =>
        \A field \in DOMAIN CandidateKeys :
            Given[field] = IF field \in DateFields
                           THEN _normalize_date(FirstUsable(raw, CandidateKeys[field])).ret
                           ELSE FirstUsable(raw, CandidateKeys[field])

\* the top level holds a serial number key without a usable value and an
\* application number; the secondary view holds a serial number; the top
\* level's application number is what was extracted
C4_Witness ==
    /\ pc = "record" /\ raw.t = "dict"
    /\ "serial_number" \in DOMAIN raw.v /\ ~Usable(raw, "serial_number")
    /\ Usable(raw, "applicationNumber")
    /\ Usable(SourcesOf(raw)[2], "serial_number")
    /\ Given["serial_number"] = raw.v["applicationNumber"]

\* a string of the form YYYY-MM-DD
IsIsoDate(x) ==
    /\ x.t = "str"
    /\ Len(x.v) = 10
    /\ \A i \in {1, 2, 3, 4, 6, 7, 9, 10} : IsDigit(x.v[i])
    /\ x.v[5] = "-" /\ x.v[8] = "-"

\* C5 (date normalization never fails): _normalize_date raises nothing and
\* returns null or a string of the form YYYY-MM-DD.
C5_NeverFails ==
    pc \in {"date_done", "date_raised"} =>
        /\ pc = "date_done"
        /\ date_result.ret = None \/ IsIsoDate(date_result.ret)

\* the pattern and the date of the run's probe
ProbePattern == date_formats[probe.v[1]]
ProbeYear == probe.v[2]
ProbeMonth == probe.v[3]
ProbeDay == probe.v[4]

ReadsAsMonthFirst ==
    ProbePattern = <<"%d", "/", "%m", "/", "%Y">> /\ ProbeDay <= 12

SubfieldKeys ==
    [name |-> {"name", "attorneyName"}, firm |-> {"firm", "lawFirm"},
     address |-> {"address"}, phone |-> {"phone", "telephone"}, email |-> {"email"}]

\* the representative of the transformed record is an entity with the five
\* keys, or null
RepIsEntity == Given["representative"].t = "ref"
RepShape ==
    IF RepIsEntity THEN DOMAIN heap[Given["representative"].v] = DOMAIN SubfieldKeys
    ELSE Given["representative"] = None

\* a representative that carries only a phone gives an entity with the phone
\* set and the other four null
PhoneOnlyCase ==
    (RepData(raw.v).t = "dict" /\ DOMAIN RepData(raw.v).v = {"phone"}
       /\ RepIsEntity) =>
        heap[Given["representative"].v] =
            [k \in DOMAIN SubfieldKeys |->
                IF k = "phone" THEN RepData(raw.v).v["phone"] ELSE None]

\* C7 (representative nullability): the representative is an entity exactly
\* when at least one sub-field, as _extract_representative resolves it, is
\* non-null; it is null otherwise; an entity has all five keys; a phone-only
\* representative gives a phone-only entity.
C7_Nullability ==
    (raw.t = "dict" /\ pc = "record") =>
        /\ RepShape
        /\ RepIsEntity <=>
              \E sub \in DOMAIN SubfieldKeys : RepEntity(RepData(raw.v))[sub] # None
        /\ PhoneOnlyCase

\* C7 as amended: the representative is an entity exactly when the record's
\* representative mapping holds a truthy value (not null, not empty, not
\* zero) under a candidate key of some sub-field; it is null otherwise; an
\* entity has all five keys; a phone-only representative gives a phone-only
\* entity.
C7_NullabilityTruthy ==
    (raw.t = "dict" /\ pc = "record") =>
        /\ RepShape
        /\ RepIsEntity <=>
              /\ RepData(raw.v).t = "dict"
              /\ \E sub \in DOMAIN SubfieldKeys : \E k \in SubfieldKeys[sub] :
                    Truthy(Get(RepData(raw.v).v, k))
        /\ PhoneOnlyCase

\* a representative that holds only an empty address has been extracted, as
\* null
C7_Witness ==
    /\ pc = "record" /\ raw.t = "dict"
    /\ RepData(raw.v) = Dict([address |-> Str(<<>>)])
    /\ Given["representative"] = None

\* the length of the run of characters other than whitespace that starts s
RECURSIVE WordLen(_)
WordLen(s) == IF s = <<>> \/ IsSpace(s[1]) THEN 0 ELSE 1 + WordLen(Tail(s))

\* the tokens of s: its maximal runs of characters other than whitespace
RECURSIVE Tokens(_)
Tokens(s) ==
    IF s = <<>> THEN <<>>
    ELSE IF IsSpace(s[1]) THEN Tokens(Tail(s))
    ELSE <<SubSeq(s, 1, WordLen(s))>> \o Tokens(From(s, WordLen(s) + 1))

\* the tokens of a name joined by single spaces, without the last token when
\* that is a designator and another token precedes it
WithoutLastDesignator(s) ==
    LET t == Tokens(s)
    IN  Join(IF Len(t) >= 2 /\ Lower(t[Len(t)]) \in Designators
             THEN SubSeq(t, 1, Len(t) - 1) ELSE t, <<" ">>)

\* the record handed to clean_trademark has an owner mapping whose name is a
\* non-empty string
OwnerNamed ==
    /\ "owner" \in DOMAIN Given /\ Given["owner"].t = "ref"
    /\ "name" \in DOMAIN heap[Given["owner"].v]
    /\ heap[Given["owner"].v]["name"].t = "str"
    /\ heap[Given["owner"].v]["name"].v # <<>>
NameGiven == heap[Given["owner"].v]["name"].v
NameCleaned == heap[Cleaned["owner"].v]["name"]

\* C8 (owner-name suffix stripping): the cleaned owner name is the
\* whitespace-normalized name without its last token if that token is a
\* designator preceded by whitespace, and the whitespace-normalized name
\* otherwise: a designator elsewhere stays, and one designator is removed.
C8_SuffixStripping ==
    (pc = "cleaned" /\ OwnerNamed) => NameCleaned = Str(WithoutLastDesignator(NameGiven))

\* a name that ends in two designators has been cleaned: the first of the
\* two is still there
C8_Witness ==
    /\ pc = "cleaned" /\ OwnerNamed
    /\ Tokens(NameGiven) = << <<"A", "b">>, <<"c", "o", "r", "p", ".">>, <<"I", "n", "c">> >>
    /\ NameCleaned = Str(<<"A", "b", " ", "c", "o", "r", "p", ".">>)

\* the record handed to clean_trademark has a representative mapping whose
\* phone is a non-empty string
PhoneNamed ==
    /\ "representative" \in DOMAIN Given /\ Given["representative"].t = "ref"
    /\ "phone" \in DOMAIN heap[Given["representative"].v]
    /\ heap[Given["representative"].v]["phone"].t = "str"
    /\ heap[Given["representative"].v]["phone"].v # <<>>
PhoneGiven == heap[Given["representative"].v]["phone"].v
PhoneCleaned == heap[Cleaned["representative"].v]["phone"]

\* C9 (representative phone): the cleaned phone is a string of digits, with
\* at most one '+', in first position; it holds the digits of the given
\* phone, in their order.
C9_PhoneDigits ==
    (pc = "cleaned" /\ PhoneNamed) =>
        /\ PhoneCleaned.t = "str"
        /\ \A i \in 1..Len(PhoneCleaned.v) :
              IsDigit(PhoneCleaned.v[i]) \/ (i = 1 /\ PhoneCleaned.v[i] = "+")
        /\ SelectSeq(PhoneCleaned.v, IsDigit) = SelectSeq(PhoneGiven, IsDigit)

\* a step that calls clean_trademark leaves the mappings there were as they
\* were, and what it returns is a new one
CallKeepsInput ==
    pc \in {"record", "cleaned"} =>
        /\ Len(heap') >= Len(heap)
        /\ \A a \in 1..Len(heap) : heap'[a] = heap[a]
        /\ pc' = "cleaned" => res' > Len(heap)
        /\ pc' = "cleaned_again" => res2' > Len(heap)

\* C10 (no mutation of the input): a call of clean_trademark leaves every
\* mapping that existed before the call as it was (the caller's record, its
\* owner and its representative among them), and the record it returns is
\* a mapping that did not exist before the call.
C10_InputUnchanged == [][CallKeepsInput]_vars

\* a record with an owner and a representative has been cleaned: the name
\* and the phone of the result differ from those of the record given
C10_Witness ==
    /\ pc = "cleaned" /\ OwnerNamed /\ PhoneNamed
    /\ res # rec
    /\ NameCleaned # Str(NameGiven)
    /\ PhoneCleaned # Str(PhoneGiven)
(***************************************************************************)
(* C11.  Output isolation in main: the JSON document is written before the *)
(* CSV is attempted, and a failure while flattening or writing the CSV is  *)
(* logged, leaves the JSON document written, and main finishes without a   *)
(* failure status.                                                         *)
(***************************************************************************)
\* C11: whenever the CSV has been attempted (its file touched, a record
\* flattened, or its outcome logged) the JSON document is complete and its
\* writing was logged earlier; and when the CSV was not written whole the
\* error is in the log and main has finished with status 0
C11_OutputIsolation ==
    /\ (files.csv # "absent" \/ flattened_data # Ret(None)
            \/ \E i \in 1..Len(log) : log[i] \in {"Saved CSV", "Error saving CSV"})
          => /\ files.json = "complete"
             /\ \E i \in 1..Len(log) :
                    /\ log[i] = "Saved JSON"
                    /\ \A j \in 1..i : log[j] \notin {"Saved CSV", "Error saving CSV"}
    /\ (pc \in {"done", "exited"} /\ flattened_data # Ret(None) /\ files.csv # "complete")
          => /\ \E i \in 1..Len(log) : log[i] = "Error saving CSV"
             /\ files.json = "complete"
             /\ exit_code = "0"

\* a run of main in which the CSV could not be written
C11_Witness ==
    /\ pc = "done" /\ row # None
    /\ files = [json |-> "complete", csv |-> "partial"]
    /\ log = <<"Saved JSON", "Error saving CSV", "Pipeline completed successfully">>

(***************************************************************************)
(* C12.  The secondary view from the loader to the extractor: the original *)
(* row is kept under a reserved key of the formatted record, and           *)
(* transform_trademark reads a field from it whose candidate key is spelled *)
(* as in the row only.                                                     *)
(***************************************************************************)
\* no candidate key of field has a usable value in the formatted record itself
OnlyInRow(field) ==
    \A i \in 1..Len(CandidateKeys[field]) :
        ~Usable(raw, CandidateKeys[field][i])

\* C12: for a row loaded by _format_record the formatted record keeps the
\* row unmodified under _raw_excel_data, and a registrationNumber column
\* (lower-cased by the header normalization) whose value no other column
\* supplies is extracted as registration_number
C12_SecondaryView ==
    (pc = "record" /\ row # None) =>
        /\ raw.v["_raw_excel_data"] = row
        /\ ("registrationNumber" \in DOMAIN row.v /\ OnlyInRow("registration_number"))
              => Given["registration_number"] = row.v["registrationNumber"]

(***************************************************************************)
(* C13.  Flattening of classes: class_numbers is the class numbers joined  *)
(* with ', ' in sequence order, class_count counts them, and the flattened *)
(* record has neither classes nor raw_data.                                *)
(***************************************************************************)
\* the record save_csv flattened, and what flatten_record made of it
Flattened == flattened_data.ret.v
HasFlattened == pc = "done" /\ ~flattened_data.exc

\* the class numbers of the entries that have one (not null, not empty), as
\* strings, in order
RECURSIVE NumbersOf(_)
NumbersOf(classes) ==
    IF classes = <<>> THEN <<>>
    ELSE LET number == classes[1].v["class_number"]
         IN  (IF Truthy(number) THEN <<PyStr(number)>> ELSE <<>>)
                 \o NumbersOf(Tail(classes))

\* ", ".join(numbers)
RECURSIVE CommaJoined(_)
CommaJoined(numbers) ==
    IF numbers = <<>> THEN <<>>
    ELSE IF Len(numbers) = 1 THEN numbers[1]
    ELSE numbers[1] \o <<",", " ">> \o CommaJoined(Tail(numbers))

NoClassField ==
    \A i \in 1..3 : SourcesOf(raw)[i].t = "dict" =>
        \A k \in 1..Len(class_fields) : class_fields[k] \notin DOMAIN SourcesOf(raw)[i].v

\* the goods/services text the fallback reads
GoodsText == FirstUsable(raw, <<"goodsServices", "goods_services", "description">>)

\* 'class' in any letter case stands at s[p], followed by whitespace and digits
ClassAt(s, p) ==
    /\ p + 4 <= Len(s)
    /\ Lower(SubSeq(s, p, p + 4)) = <<"c", "l", "a", "s", "s">>
    /\ SpaceRun(s, p + 5) >= 1
    /\ DigitRun(s, p + 5 + SpaceRun(s, p + 5)) >= 1

\* the number that follows the 'class' at s[p]
NumberAt(s, p) ==
    SubSeq(s, p + 5 + SpaceRun(s, p + 5),
           p + 4 + SpaceRun(s, p + 5) + DigitRun(s, p + 5 + SpaceRun(s, p + 5)))

\* the entries for the occurrences in s from position p on, in order
RECURSIVE EntriesFrom(_, _)
EntriesFrom(s, p) ==
    IF p > Len(s) THEN <<>>
    ELSE (IF ClassAt(s, p) THEN <<ClassEntry(Str(NumberAt(s, p)), None)>> ELSE <<>>)
            \o EntriesFrom(s, p + 1)

\* C14: a raw record without a class field in any source, whose
\* goods/services text is a string, is given one class entry with a null
\* description per occurrence of 'class' (any letter case), whitespace and a
\* number in the text, in order of occurrence
C14_ClassFallback ==
    (pc = "record" /\ InMain /\ NoClassField /\ GoodsText.t = "str") =>
        Given["classes"] = List(EntriesFrom(GoodsText.v, 1))

(***************************************************************************)
(* C15.  Malformed sub-entries are skipped one by one: an element of the   *)
(* classes or events of the raw record that has the wrong type or none of  *)
(* the expected keys gives no entry, every other element gives its entry   *)
(* in order, and no entry has all its fields null.                         *)
(***************************************************************************)
ClassKeys == {"classNumber", "class_number", "code", "description", "classDescription"}
EventKeys == {"date", "eventDate", "type", "eventType", "code", "eventCode",
              "description", "eventDescription"}

\* a bare code, or a mapping with at least one of the keys
WellFormedClass(c) ==
    \/ c.t \in {"str", "num"}
    \/ c.t = "dict" /\ DOMAIN c.v \cap ClassKeys # {}
WellFormedEvent(e) == e.t = "dict" /\ DOMAIN e.v \cap EventKeys # {}

\* every field of the entry is null
AllNull(entry) == \A k \in DOMAIN entry.v : entry.v[k] = None

\* the raw record holds a non-empty list under key and nothing else
OnlyList(key) == DOMAIN raw.v = {key} /\ raw.v[key].t = "list" /\ raw.v[key].v # <<>>

\* C15: the classes (events) of the transformed record are the entries of
\* the well-formed elements of the raw list, in order, and none of them has
\* all its fields null
C15_MalformedSkipped ==
    (pc = "record" /\ InMain) =>
        /\ OnlyList("classes") =>
              Given["classes"] =
                  List(ClassesOfList(SelectSeq(raw.v["classes"].v, WellFormedClass)))
        /\ OnlyList("events") =>
              Given["events"] =
                  List(EventsOfList(SelectSeq(raw.v["events"].v, WellFormedEvent)))
        /\ \A i \in 1..Len(Given["classes"].v) : ~AllNull(Given["classes"].v[i])
        /\ \A i \in 1..Len(Given["events"].v) : ~AllNull(Given["events"].v[i])

(***************************************************************************)
(* C16.  An owner given as a plain string: the name is that string,        *)
(* whitespace-normalized, and the other sub-fields are null.               *)
(***************************************************************************)
\* the owner/applicant value _extract_owner finds in the raw record
OwnerData == FindData(all_sources(raw.v), owner_fields, 1, None)

\* the raw record went through transform_trademark and its owner value is a
\* non-empty string
StringOwner == pc = "record" /\ InMain /\ OwnerData.t = "str" /\ OwnerData.v # <<>>

\* the owner of the transformed record
OwnerGiven == heap[Given["owner"].v]

\* C16 as stated: name is the string, whitespace-normalized, and address,
\* city, state, country and postal_code are null, whatever else the raw
\* record holds
C16_StringOwner ==
    StringOwner =>
        /\ OwnerGiven["name"] = Str(CollapseSpaces(Strip(OwnerData.v)))
        /\ \A k \in OwnerKeys \ {"name"} : OwnerGiven[k] = None

\* C16 amended: name is the string, whitespace-normalized; address, city,
\* state and postal_code are null; country is the document-level country
\* (the first usable 'country' or 'Country' of the earliest source that has
\* one), null when there is none
C16_StringOwnerCountry ==
    StringOwner =>
        /\ OwnerGiven["name"] = Str(CollapseSpaces(Strip(OwnerData.v)))
        /\ \A k \in OwnerKeys \ {"name", "country"} : OwnerGiven[k] = None
        /\ OwnerGiven["country"] = FirstUsable(raw, <<"country", "Country">>)

\* a string owner in a record with a document-level country
C16_Witness ==
    /\ StringOwner
    /\ {"owner", "country"} \subseteq DOMAIN raw.v
    /\ raw.v["owner"] = Str(<<" ", "A", "b", " ", " ", "C", "o", " ">>)
    /\ OwnerGiven["name"] = Str(<<"A", "b", " ", "C", "o">>)
    /\ OwnerGiven["country"] = Str(<<"u", "s">>)

(***************************************************************************)
(* C17.  Owner field normalization: in the record clean_trademark returns  *)
(* every string owner sub-field is trimmed and has no run of whitespace,   *)
(* and state, country and postal_code are upper-cased.                     *)
(***************************************************************************)
\* no leading or trailing whitespace, no two whitespace characters in a row
Tidy(s) ==
    /\ s # <<>> => ~IsSpace(s[1]) /\ ~IsSpace(s[Len(s)])
    /\ \A i \in 1..(Len(s) - 1) : ~(IsSpace(s[i]) /\ IsSpace(s[i + 1]))

\* the owner of the record clean_trademark returned
OwnerCleaned == heap[Cleaned["owner"].v]

\* C17: every string-valued sub-field of the cleaned owner is tidy, and
\* state, country and postal_code have no lower-case letter
C17_OwnerNormalized ==
    pc = "cleaned" =>
        \A k \in OwnerKeys :
            OwnerCleaned[k].t = "str" =>
                /\ Tidy(OwnerCleaned[k].v)
                /\ k \in {"state", "country", "postal_code"} =>
                       Upper(OwnerCleaned[k].v) = OwnerCleaned[k].v

(***************************************************************************)
(* C18.  Empty candidates do not shadow later ones: in the search for the  *)
(* owner and for the classes, a candidate field that is present with a     *)
(* null or empty value is passed over for a later candidate of the same    *)
(* source that holds a value.                                              *)
(***************************************************************************)
\* the value of the first of the fields that the mapping f holds with a
\* value that is not null and not empty; null when there is none
FirstNonEmpty(f, fields) ==
    LET held == {k \in 1..Len(fields) : fields[k] \in DOMAIN f /\ Truthy(f[fields[k]])}
    IN  IF held = {} THEN None
        ELSE f[fields[CHOOSE k \in held : \A j \in held : k <= j]]

\* the raw record is its own only source
OneSource == pc = "record" /\ InMain /\ "raw_data" \notin DOMAIN raw.v

\* C18: in a raw record without other sources, the owner name is the first
\* non-empty owner candidate when that is a string, and the classes are
\* those of the first non-empty class candidate when that is a string,
\* whatever empty candidates precede it
C18_NoShadowing ==
    OneSource =>
        /\ FirstNonEmpty(raw.v, owner_fields).t = "str" =>
              OwnerGiven["name"] = _normalize_text(FirstNonEmpty(raw.v, owner_fields))
        /\ FirstNonEmpty(raw.v, class_fields).t = "str" =>
              Given["classes"] = List(ClassesOfString(FirstNonEmpty(raw.v, class_fields).v))

=============================================================================
